---- MODULE Spec2Model ----
(***************************************************************************)
(* A model of rusty-java: the class linker (src/src/class.rs), the VM      *)
(* (src/src/vm.rs) and the frame interpreter (src/src/call_frame.rs).      *)
(*                                                                         *)
(* The class files the VM can open are a fixed directory (ClassFiles).     *)
(* The body of the entry method Main.main is the input of a run: it is     *)
(* revealed one instruction at a time, the first time the program counter  *)
(* reaches an index (prog), so that every program over the instructions a  *)
(* specification offers is explored up to the specification's limit.       *)
(***************************************************************************)
EXTENDS Integers, Sequences, FiniteSets, TLC

VARIABLES
    classes,    \* metadata arena: the linked Class values, in allocation order
    heap,       \* heap arena: the allocated objects and arrays, address = index
    frames,     \* the call stack of CallFrames, the running frame last
    status,     \* "idle" | "running" | "done" | "error" | "panic" | "abort"
    stdout,     \* bytes written to the VM's stdout sink (print_jvm_value)
    console,    \* bytes written by print! in Vm::call_method
    hostRefs,   \* the &Class values load_class_file returned to the host
    prog,       \* the instructions of Main.main revealed so far
    classpath,  \* the class files load_class_file finds, by class name
    clinitRuns, \* history: class name -> number of <clinit> executions
    last,       \* history: the last instruction, its frame before and its result
    shadow,     \* history: the values the program wrote, by the field written
    limit,      \* the length up to which Main.main is explored in this run
    bytes,      \* decode_instructions: the code array handed to the decoder
    decoded,    \* decode_instructions: its result, once it has run
    stream,     \* read_constant_pool: the count and the entries in the file
    reader      \* read_constant_pool: the loop's state and the pool built

vmVars == <<classes, heap, frames, status, stdout, console, hostRefs, prog,
            clinitRuns, last, shadow, limit, classpath>>
decoderVars == <<bytes, decoded>>
readerVars == <<stream, reader>>
unitVars == <<decoderVars, readerVars>>
vars == <<vmVars, unitVars>>

----------------------------------------------------------------------------
(* Bounds of the model *)

MaxHostLoads == 2   \* load_class_file calls made by the host
MaxTail == 4        \* bytes of a code array after its run of nops

----------------------------------------------------------------------------
(* JvmValue (call_frame.rs) *)

IntV(n) == [t |-> "Int", i |-> n]
RefV(a) == [t |-> "Reference", r |-> a]
StrV(s) == [t |-> "StringConst", s |-> s]
LongV(n) == [t |-> "Long", l |-> n]
BoolV(b) == [t |-> "Boolean", b |-> b]
ByteV(n) == [t |-> "Byte", y |-> n]
TagV(tag) == [t |-> tag]
NoneV == [t |-> "None"]

Last(s) == s[Len(s)]
Front(s) == SubSeq(s, 1, Len(s) - 1)

----------------------------------------------------------------------------
(* Instructions (instructions.rs) *)

Bipush(v) == [op |-> "bipush", value |-> v]
Const(v) == [op |-> "const", data_type |-> "Int", value |-> v]
Load(ty, ix) == [op |-> "load", data_type |-> ty, index |-> ix]
If(condition, branch) == [op |-> "if", condition |-> condition, branch |-> branch]
IfIcmp(condition, branch) ==
    [op |-> "if_icmp", condition |-> condition, branch |-> branch]
Goto(branch) == [op |-> "goto", branch |-> branch]
Store(ty, ix) == [op |-> "store", data_type |-> ty, index |-> ix]
Ldc(ix) == [op |-> "ldc", index |-> ix]
Return(ty) == [op |-> "return", data_type |-> ty]
Invoke(k, ix) == [op |-> "invoke", kind |-> k, index |-> ix]
Add(ty) == [op |-> "add", data_type |-> ty]
Getstatic(ix) == [op |-> "getstatic", index |-> ix]
Putstatic(ix) == [op |-> "putstatic", index |-> ix]
Getfield(ix) == [op |-> "getfield", index |-> ix]
Putfield(ix) == [op |-> "putfield", index |-> ix]
New(ix) == [op |-> "new", index |-> ix]
Newarray(ty) == [op |-> "newarray", atype |-> ty]
Arraystore(ty) == [op |-> "arraystore", data_type |-> ty]
Sipush(v) == [op |-> "sipush", value |-> v]
Ifnull(branch) == [op |-> "ifnull", branch |-> branch]
Ifnonnull(branch) == [op |-> "ifnull", branch |-> branch]
Rem(ty) == [op |-> "rem", data_type |-> ty]
Simple(o) == [op |-> o]

----------------------------------------------------------------------------
(* The class files on disk (class_file.rs ClassFile), with the constant    *)
(* pool's name-and-type and utf-8 indirections resolved.                   *)

CpClass(n) == [tag |-> "Class", name |-> n]
CpField(ci, n, d) ==
    [tag |-> "FieldRef", class_index |-> ci, name |-> n, descriptor |-> d]
CpMethod(ci, n, d) ==
    [tag |-> "MethodRef", class_index |-> ci, name |-> n, descriptor |-> d]
CpString(s) == [tag |-> "String", string |-> s]

FieldInfo(n, d, st) == [name |-> n, descriptor |-> d, static |-> st]
MethodInfo(n, d, fl, ps, b) ==
    [name |-> n, descriptor |-> d, access_flags |-> fl, params |-> ps, body |-> b]
Body(n, c) == [present |-> TRUE, locals |-> n, code |-> c]
NoBody == [present |-> FALSE]

PrintS == "(Ljava/lang/String;)V"
MainDesc == "([Ljava/lang/String;)V"

ClinitPrinting(strIx, printIx) ==
    MethodInfo("<clinit>", "()V", {"STATIC"}, <<>>,
               Body(0, <<Ldc(strIx), Invoke("Static", printIx), Return("Void")>>))

NativePrint(d, ps) == MethodInfo("print", d, {"STATIC", "NATIVE"}, ps, NoBody)

FileA ==
    [constant_pool |-> <<CpClass("A"), CpField(1, "x", "I"), CpString(<<"A">>),
                         CpMethod(1, "print", PrintS)>>,
     this_class |-> 1, super_class |-> 0,
     fields |-> <<FieldInfo("x", "I", FALSE)>>,
     methods |-> <<ClinitPrinting(3, 4),
                   NativePrint(PrintS, <<"Object">>),
                   MethodInfo("sound", "()I", {"PUBLIC"}, <<>>,
                              Body(1, <<Bipush(1), Return("Int")>>)),
                   MethodInfo("pick", "(I)I", {"PUBLIC"}, <<"Int">>,
                              Body(2, <<Load("Int", 1), Return("Int")>>)),
                   MethodInfo("init", "()V", {"PUBLIC"}, <<>>,
                              Body(1, <<Return("Void")>>))>>]

FileS ==
    [constant_pool |-> <<CpClass("S"), CpClass("A"), CpField(1, "y", "I"),
                         CpField(1, "x", "I"), CpString(<<"S">>),
                         CpMethod(1, "print", PrintS)>>,
     this_class |-> 1, super_class |-> 2,
     fields |-> <<FieldInfo("y", "I", FALSE)>>,
     methods |-> <<ClinitPrinting(5, 6),
                   NativePrint(PrintS, <<"Object">>),
                   MethodInfo("sound", "()I", {"PUBLIC"}, <<>>,
                              Body(1, <<Bipush(2), Return("Int")>>)),
                   MethodInfo("pick", "(I)I", {"PUBLIC"}, <<"Int">>,
                              Body(2, <<Bipush(9), Return("Int")>>))>>]

FileH ==
    [constant_pool |-> <<CpClass("H"), CpClass("A")>>,
     this_class |-> 1, super_class |-> 2,
     fields |-> <<FieldInfo("x", "I", FALSE), FieldInfo("z", "I", FALSE)>>,
     methods |-> <<>>]

FileCounter ==
    [constant_pool |-> <<CpClass("Counter"), CpField(1, "n", "I")>>,
     this_class |-> 1, super_class |-> 0,
     fields |-> <<FieldInfo("n", "I", TRUE)>>,
     methods |-> <<MethodInfo("inc", "()V", {"STATIC"}, <<>>,
                              Body(0, <<Getstatic(2), Bipush(1), Add("Int"),
                                        Putstatic(2), Return("Void")>>))>>]

\* code that leaves 2^(k+1) - 1 on the stack: 1, then k times x + x + 1
RECURSIVE Ones(_)
Ones(k) ==
    IF k = 0 THEN <<Bipush(1)>>
    ELSE Ones(k - 1) \o <<Simple("dup"), Add("Int"), Bipush(1), Add("Int")>>

FileMain ==
    [constant_pool |->
        <<CpClass("Main"),                  \* 1
          CpField(1, "m", "I"),             \* 2
          CpClass("Counter"),               \* 3
          CpField(3, "n", "I"),             \* 4
          CpClass("A"),                     \* 5
          CpClass("S"),                     \* 6
          CpClass("H"),                     \* 7
          CpField(5, "x", "I"),             \* 8
          CpField(6, "x", "I"),             \* 9
          CpField(6, "y", "I"),             \* 10
          CpField(7, "x", "I"),             \* 11
          CpField(7, "z", "I"),             \* 12
          CpMethod(5, "sound", "()I"),      \* 13
          CpMethod(1, "first", "(II)I"),    \* 14
          CpMethod(3, "inc", "()V"),        \* 15
          CpMethod(1, "print", "(I)V"),     \* 16
          CpMethod(1, "nothing", "()V"),    \* 17
          CpMethod(1, "makeNull", "()LA;"), \* 18
          CpMethod(1, "id", "(I)I"),        \* 19
          CpMethod(7, "sound", "()I"),      \* 20
          CpMethod(5, "missing", "()V"),    \* 21
          CpMethod(1, "locked", "()V"),     \* 22
          CpClass("L"),                     \* 23
          [tag |-> "InterfaceMethodRef", class_index |-> 5,
           name |-> "sound", descriptor |-> "()I"],  \* 24
          [tag |-> "InvokeDynamic"],        \* 25
          CpClass("T"),                     \* 26
          CpMethod(1, "maxInt", "()I"),     \* 27
          CpClass("P"),                     \* 28
          CpString(<<"h", "i">>),           \* 29
          CpClass("Ping"),                  \* 30
          CpClass("Pong"),                  \* 31
          CpMethod(5, "pick", "(I)I"),      \* 32
          CpMethod(7, "pick", "(I)I"),      \* 33
          CpMethod(5, "init", "()V"),       \* 34
          CpClass("Q"),                     \* 35
          CpField(28, "flag", "Z"),         \* 36
          CpField(26, "w", "I"),            \* 37
          CpClass("N"),                     \* 38
          CpField(38, "next", "LN;"),       \* 39
          CpField(38, "v", "I"),            \* 40
          CpMethod(1, "currentTimeMillis", "()J")>>,  \* 41
     this_class |-> 1, super_class |-> 0,
     fields |-> <<FieldInfo("m", "I", TRUE)>>,
     methods |-> <<MethodInfo("main", MainDesc, {"PUBLIC", "STATIC"},
                              <<"Array">>, Body(2, <<>>)),
                   NativePrint("(I)V", <<"Int">>),
                   MethodInfo("first", "(II)I", {"STATIC"}, <<"Int", "Int">>,
                              Body(2, <<Load("Int", 0), Return("Int")>>)),
                   MethodInfo("id", "(I)I", {"STATIC"}, <<"Int">>,
                              Body(1, <<Load("Int", 0), Return("Int")>>)),
                   MethodInfo("nothing", "()V", {"STATIC"}, <<>>,
                              Body(0, <<Return("Void")>>)),
                   MethodInfo("makeNull", "()LA;", {"STATIC"}, <<>>,
                              Body(0, <<Simple("aconst_null"),
                                        Return("Reference")>>)),
                   MethodInfo("locked", "()V", {"STATIC", "SYNCHRONIZED"}, <<>>,
                              Body(0, <<Bipush(1), Putstatic(2),
                                        Return("Void")>>)),
                   MethodInfo("maxInt", "()I", {"STATIC"}, <<>>,
                              Body(0, Ones(30) \o <<Return("Int")>>)),
                   MethodInfo("currentTimeMillis", "()J", {"STATIC", "NATIVE"},
                              <<>>, NoBody)>>]

\* a class whose initialiser carries the SYNCHRONIZED flag
FileL ==
    [constant_pool |-> <<CpClass("L"), CpString(<<"L">>),
                         CpMethod(1, "print", PrintS)>>,
     this_class |-> 1, super_class |-> 0,
     fields |-> <<>>,
     methods |-> <<MethodInfo("<clinit>", "()V", {"STATIC", "SYNCHRONIZED"}, <<>>,
                              Body(0, <<Ldc(2), Invoke("Static", 3),
                                        Return("Void")>>)),
                   NativePrint(PrintS, <<"Object">>)>>]

\* a class with static fields of several types, one of them under the key of
\* an inherited instance field
FileT ==
    [constant_pool |-> <<CpClass("T"), CpClass("A")>>,
     this_class |-> 1, super_class |-> 2,
     fields |-> <<FieldInfo("flag", "Z", TRUE), FieldInfo("big", "J", TRUE),
                  FieldInfo("w", "I", FALSE), FieldInfo("ratio", "D", TRUE),
                  FieldInfo("obj", "Ljava/lang/Object;", TRUE),
                  FieldInfo("arr", "[I", TRUE), FieldInfo("x", "I", TRUE)>>,
     methods |-> <<>>]

\* a class with an instance field of type boolean
FileP ==
    [constant_pool |-> <<CpClass("P")>>,
     this_class |-> 1, super_class |-> 0,
     fields |-> <<FieldInfo("flag", "Z", FALSE)>>,
     methods |-> <<>>]

\* a class with instance fields of type int, long and object
FileQ ==
    [constant_pool |-> <<CpClass("Q")>>,
     this_class |-> 1, super_class |-> 0,
     fields |-> <<FieldInfo("count", "I", FALSE), FieldInfo("big", "J", FALSE),
                  FieldInfo("name", "Ljava/lang/String;", FALSE)>>,
     methods |-> <<>>]

\* two classes whose initialisers reference each other, neither the other's
\* super class
FilePing ==
    [constant_pool |-> <<CpClass("Ping"), CpClass("Pong")>>,
     this_class |-> 1, super_class |-> 0,
     fields |-> <<>>,
     methods |-> <<MethodInfo("<clinit>", "()V", {"STATIC"}, <<>>,
                              Body(0, <<New(2), Return("Void")>>))>>]

FilePong ==
    [constant_pool |-> <<CpClass("Pong"), CpClass("Ping"),
                         CpMethod(2, "touch", "()V")>>,
     this_class |-> 1, super_class |-> 0,
     fields |-> <<>>,
     methods |-> <<MethodInfo("<clinit>", "()V", {"STATIC"}, <<>>,
                              Body(0, <<Invoke("Static", 3), Return("Void")>>)),
                   MethodInfo("touch", "()V", {"STATIC"}, <<>>,
                              Body(0, <<Return("Void")>>))>>]

\* a class with an instance field that refers to an object of its own class
FileN ==
    [constant_pool |-> <<CpClass("N")>>,
     this_class |-> 1, super_class |-> 0,
     fields |-> <<FieldInfo("next", "LN;", FALSE), FieldInfo("v", "I", FALSE)>>,
     methods |-> <<>>]

FileNames ==
    {"A", "S", "H", "Counter", "Main", "L", "T", "P", "Ping", "Pong", "Q", "N"}

\* the class file stored under a name
DiskFiles(name) ==
    CASE name = "A" -> FileA
      [] name = "S" -> FileS
      [] name = "H" -> FileH
      [] name = "Counter" -> FileCounter
      [] name = "Main" -> FileMain
      [] name = "L" -> FileL
      [] name = "T" -> FileT
      [] name = "P" -> FileP
      [] name = "Ping" -> FilePing
      [] name = "Pong" -> FilePong
      [] name = "Q" -> FileQ
      [] name = "N" -> FileN

\* the class file load_class_file reads for a name
ClassFiles(name) == classpath[name]

----------------------------------------------------------------------------
(* Descriptors (descriptor.rs) *)

\* parse_field_descriptor, on the descriptors the class files use
FieldTypeOf(d) ==
    CASE d = "B" -> "Byte"
      [] d = "C" -> "Char"
      [] d = "D" -> "Double"
      [] d = "F" -> "Float"
      [] d = "I" -> "Int"
      [] d = "J" -> "Long"
      [] d = "S" -> "Short"
      [] d = "Z" -> "Boolean"
      [] d = "[I" -> "Array"
      [] OTHER -> "Object"

----------------------------------------------------------------------------
(* Class linking (class.rs Class::new) *)

MapPut(m, k, v) == [x \in DOMAIN m \cup {k} |-> IF x = k THEN v ELSE m[x]]
EmptyMap == [x \in {} |-> 0]

\* the ordinal a newly declared instance field is given
NextOrdinal(field_ordinals, fields) == Cardinality(DOMAIN field_ordinals)

\* the loop over class_file.fields that skips static fields
RECURSIVE LinkFields(_, _, _, _)
LinkFields(infos, i, fields, field_ordinals) ==
    IF i > Len(infos) THEN [fields |-> fields, field_ordinals |-> field_ordinals]
    ELSE IF infos[i].static THEN LinkFields(infos, i + 1, fields, field_ordinals)
    ELSE LinkFields(infos, i + 1,
                    Append(fields, [name |-> infos[i].name,
                                    descriptor |-> infos[i].descriptor]),
                    MapPut(field_ordinals,
                           <<infos[i].name, infos[i].descriptor>>,
                           NextOrdinal(field_ordinals, fields)))

\* the initial value of a static field's cell
StaticDefault(d) ==
    LET ty == FieldTypeOf(d) IN
    CASE ty = "Byte" -> ByteV(0)
      [] ty = "Char" -> [t |-> "Char", c |-> 0]
      [] ty = "Double" -> [t |-> "Double", d |-> 0]
      [] ty = "Float" -> [t |-> "Float", f |-> 0]
      [] ty = "Int" -> IntV(0)
      [] ty = "Long" -> LongV(0)
      [] ty = "Short" -> [t |-> "Short", h |-> 0]
      [] ty = "Boolean" -> BoolV(FALSE)
      [] OTHER -> RefV(0)

\* a map that gives every declared field a cell, static or not
StaticFieldsAll(infos) ==
    LET keys == {<<infos[i].name, infos[i].descriptor>> : i \in 1..Len(infos)}
    IN [k \in keys |-> StaticDefault(k[2])]

\* the static_fields map: a cell for every field with the STATIC flag
StaticFields(infos) ==
    LET keys == {<<infos[i].name, infos[i].descriptor>> :
                    i \in {j \in 1..Len(infos) : infos[j].static}}
    IN [k \in keys |-> StaticDefault(k[2])]

\* Class::new once the super class (an arena index, 0 for none) is loaded
ClassNew(cf, super_class, arena) ==
    LET inherited == IF super_class = 0
                     THEN [fields |-> <<>>, field_ordinals |-> EmptyMap]
                     ELSE [fields |-> arena[super_class].fields,
                           field_ordinals |-> arena[super_class].field_ordinals]
        linked == LinkFields(cf.fields, 1, inherited.fields,
                             inherited.field_ordinals)
    IN [name |-> cf.constant_pool[cf.this_class].name,
        super_class |-> super_class,
        static_fields |-> StaticFields(cf.fields),
        fields |-> linked.fields,
        field_ordinals |-> linked.field_ordinals]

\* Class::method on the methods map: the last method record with this key
MethodIndex(cf, name, descriptor) ==
    LET hits == {i \in 1..Len(cf.methods) :
                    cf.methods[i].name = name
                    /\ cf.methods[i].descriptor = descriptor}
    IN IF hits = {} THEN 0 ELSE CHOOSE i \in hits : \A j \in hits : j <= i

----------------------------------------------------------------------------
(* Vm::call_method (vm.rs): the loop that runs <clinit> *)

\* the decimal form `{v}` writes for an integer, one character per element
RECURSIVE Digits(_)
Digits(n) ==
    IF n < 0 THEN <<"-">> \o Digits(0 - n)
    ELSE IF n < 10 THEN <<(<<"0", "1", "2", "3", "4", "5", "6", "7", "8", "9">>)[n + 1]>>
    ELSE Digits(n \div 10) \o Digits(n % 10)

RECURSIVE VmLoop(_, _, _, _, _, _)
VmLoop(cf, code, pc, locals, operand_stack, out) ==
    IF pc >= Len(code) THEN [res |-> "panic", console |-> out]
    ELSE
    LET ins == code[pc + 1]
        cp == cf.constant_pool
        Panic == [res |-> "panic", console |-> out]
        Error == [res |-> "error", console |-> out]
    IN
    CASE ins.op = "return" ->
            IF ins.data_type = "Void" THEN [res |-> "ok", console |-> out]
            ELSE Panic
      [] ins.op = "const" ->
            IF ins.data_type = "Int"
            THEN VmLoop(cf, code, pc + 1, locals,
                        Append(operand_stack, IntV(ins.value)), out)
            ELSE Panic
      [] ins.op = "store" ->
            IF ins.data_type # "Int" THEN Panic
            ELSE IF operand_stack = <<>> THEN Error
            ELSE IF ins.index >= Len(locals) THEN Panic
            ELSE IF Last(operand_stack).t = "Byte"
            THEN VmLoop(cf, code, pc + 1,
                        [locals EXCEPT ![ins.index + 1] = Last(operand_stack)],
                        Front(operand_stack), out)
            ELSE Panic
      [] ins.op = "load" ->
            IF ins.data_type # "Int" \/ ins.index >= Len(locals) THEN Panic
            ELSE LET l == locals[ins.index + 1] IN
                 IF l.t = "None"
                 THEN VmLoop(cf, code, pc + 1, locals,
                             Append(operand_stack, IntV(0)), out)
                 ELSE IF l.t = "Int"
                 THEN VmLoop(cf, code, pc + 1, locals,
                             Append(operand_stack, l), out)
                 ELSE IF l.t = "Byte"
                 THEN VmLoop(cf, code, pc + 1, locals,
                             Append(operand_stack, IntV(l.y)), out)
                 ELSE Error
      [] ins.op = "invoke" ->
            IF ins.kind = "Dynamic"
            THEN IF ins.index \in 1..Len(cp) /\ cp[ins.index].tag = "InvokeDynamic"
                 THEN Panic
                 ELSE IF ins.index \in 1..Len(cp) THEN Error ELSE Panic
            ELSE IF ins.kind # "Static" \/ ins.index \notin 1..Len(cp) THEN Panic
            ELSE IF cp[ins.index].tag # "MethodRef" THEN Error
            ELSE LET m == MethodIndex(cf, cp[ins.index].name,
                                      cp[ins.index].descriptor)
                 IN IF m = 0 THEN Error
                    ELSE IF "NATIVE" \in cf.methods[m].access_flags
                            /\ cp[ins.index].name = "print"
                    THEN IF operand_stack = <<>> THEN Error
                         ELSE LET arg == Last(operand_stack) IN
                              IF arg.t = "StringConst"
                              THEN VmLoop(cf, code, pc + 1, locals,
                                          Front(operand_stack),
                                          out \o arg.s)
                              ELSE IF arg.t = "Int"
                              THEN VmLoop(cf, code, pc + 1, locals,
                                          Front(operand_stack),
                                          out \o Digits(arg.i))
                              ELSE IF arg.t = "Byte"
                              THEN VmLoop(cf, code, pc + 1, locals,
                                          Front(operand_stack),
                                          out \o Digits(arg.y))
                              ELSE Panic
                    ELSE Panic
      [] ins.op = "ldc" ->
            IF ins.index \in 1..Len(cp) /\ cp[ins.index].tag = "String"
            THEN VmLoop(cf, code, pc + 1, locals,
                        Append(operand_stack, StrV(cp[ins.index].string)), out)
            ELSE Panic
      [] OTHER -> Panic

\* a call whose output lands before what was written so far
VmCallMethodEarly(cf, method, out) ==
    IF ~method.body.present THEN [res |-> "error", console |-> out]
    ELSE [res |-> VmLoop(cf, method.body.code, 0,
                         [i \in 1..method.body.locals |-> NoneV], <<>>, <<>>).res,
          console |-> VmLoop(cf, method.body.code, 0,
                             [i \in 1..method.body.locals |-> NoneV], <<>>,
                             <<>>).console \o out]

VmCallMethod(cf, method, out) ==
    IF ~method.body.present THEN [res |-> "error", console |-> out]
    ELSE VmLoop(cf, method.body.code, 0,
                [i \in 1..method.body.locals |-> NoneV], <<>>, out)

----------------------------------------------------------------------------
(* Vm::load_class_file (vm.rs) *)

\* whether load_class_file runs the method it found as <clinit>()V
RunsClinit(method) == "STATIC" \in method.access_flags

\* vm = [classes, console, runs]; the result adds res and cls (arena index)
RECURSIVE LoadClassFile(_, _)
LoadClassFile(name, vm) ==
    IF name \notin FileNames THEN [res |-> "error", cls |-> 0, vm |-> vm]
    ELSE
    LET cf == ClassFiles(name)
        sup == IF cf.super_class = 0
                  \/ cf.constant_pool[cf.super_class].tag # "Class"
               THEN [res |-> "ok", cls |-> 0, vm |-> vm]
               ELSE LoadClassFile(cf.constant_pool[cf.super_class].name, vm)
    IN
    IF sup.res # "ok" THEN [res |-> sup.res, cls |-> 0, vm |-> sup.vm]
    ELSE
    LET class == ClassNew(cf, sup.cls, sup.vm.classes)
        arena == Append(sup.vm.classes, class)
        cls == Len(arena)
        clinit == MethodIndex(cf, "<clinit>", "()V")
    IN
    IF clinit # 0 /\ RunsClinit(cf.methods[clinit])
    THEN LET r == VmCallMethod(cf, cf.methods[clinit], sup.vm.console) IN
         [res |-> r.res, cls |-> IF r.res = "ok" THEN cls ELSE 0,
          vm |-> [classes |-> arena, console |-> r.console,
                  runs |-> [sup.vm.runs EXCEPT ![name] = @ + 1]]]
    ELSE [res |-> "ok", cls |-> cls,
          vm |-> [classes |-> arena, console |-> sup.vm.console,
                  runs |-> sup.vm.runs]]

----------------------------------------------------------------------------
(* CallFrame (call_frame.rs): the running frame and its instruction *)

Top == frames[Len(frames)]

\* self.class.constant_pool() of a frame
Pool(f) == ClassFiles(classes[f.class].name).constant_pool

\* self.method of a frame
MethodOf(f) == ClassFiles(f.mclass).methods[f.mindex]

IsEntry(f) == f.mclass = "Main" /\ MethodOf(f).name = "main"

\* body.code of a frame's method
Code(f) == IF IsEntry(f) THEN prog ELSE MethodOf(f).body.code

\* let instruction = &body.code[pc], the entry method's code being revealed
Fetch(ins) ==
    /\ status = "running"
    /\ frames # <<>>
    /\ IF IsEntry(Top) /\ Top.pc = Len(prog)
       THEN Len(prog) < limit /\ prog' = Append(prog, ins)
       ELSE /\ Top.pc < Len(Code(Top))
            /\ Code(Top)[Top.pc + 1] = ins
            /\ UNCHANGED prog

\* the state an instruction starts from, as the result of doing nothing
Base ==
    [res |-> "next", frame |-> Top, offset |-> 1, classes |-> classes,
     heap |-> heap, stdout |-> stdout, console |-> console,
     runs |-> clinitRuns]

Failed(r, how) == [r EXCEPT !.res = how]
Push(r, v) == [r EXCEPT !.frame.operand_stack = Append(@, v)]
Pop(r) == [r EXCEPT !.frame.operand_stack = Front(@)]
StackOf(r) == r.frame.operand_stack

\* the caller's state after load_class_file returned l
Loaded(r, l) ==
    [r EXCEPT !.res = IF l.res = "ok" THEN r.res ELSE l.res,
              !.classes = l.vm.classes, !.console = l.vm.console,
              !.runs = l.vm.runs] @@ [cls |-> l.cls]

\* self.vm.load_class_file(name) from inside an instruction
WithLoad(r, name) ==
    Loaded(r, LoadClassFile(name, [classes |-> r.classes, console |-> r.console,
                                   runs |-> r.runs]))

\* the target class of a field-ref or method-ref in the constant pool cp: the
\* running class when the class indices agree, else a load by name
TargetClassIn(r, cp, this_class, ref) ==
    IF ref.class_index = this_class
    THEN r @@ [cls |-> r.frame.class]
    ELSE IF ref.class_index \notin 1..Len(cp) THEN Failed(r, "panic") @@ [cls |-> 0]
    ELSE IF cp[ref.class_index].tag # "Class" THEN Failed(r, "error") @@ [cls |-> 0]
    ELSE WithLoad(r, cp[ref.class_index].name)

TargetClass(r, ref) ==
    TargetClassIn(r, Pool(r.frame),
                  ClassFiles(classes[r.frame.class].name).this_class, ref)

----------------------------------------------------------------------------
(* Instructions that touch only the frame *)

StepBipush(ins) == Push(Base, IntV(ins.value))

StepAconstNull == Push(Base, RefV(0))

\* ldc: a String constant is pushed, any other constant is todo!()
StepLdcIn(cp, ins) ==
    IF ins.index \notin 1..Len(cp) THEN Failed(Base, "panic")
    ELSE IF cp[ins.index].tag # "String" THEN Failed(Base, "panic")
    ELSE Push(Base, StrV(cp[ins.index].string))

StepLdc(ins) == StepLdcIn(Pool(Top), ins)

StepDup ==
    IF StackOf(Base) = <<>> THEN Failed(Base, "error")
    ELSE Push(Base, Last(StackOf(Base)))

StepLoad(ins) ==
    IF ins.index >= Len(Top.locals) THEN Failed(Base, "panic")
    ELSE LET l == Top.locals[ins.index + 1] IN
    IF ins.data_type = "Int"
    THEN (IF l.t = "None" THEN Push(Base, IntV(0))
          ELSE IF l.t = "Int" THEN Push(Base, l)
          ELSE IF l.t = "Byte" THEN Push(Base, IntV(l.y))
          ELSE Failed(Base, "error"))
    ELSE IF ins.data_type = "Reference"
    THEN (IF l.t = "None" THEN Push(Base, RefV(0))
          ELSE IF l.t \in {"Reference", "ReturnAddress", "StringConst"}
          THEN Push(Base, l)
          ELSE Failed(Base, "error"))
    ELSE Failed(Base, "panic")

StepStore(ins) ==
    IF ins.data_type \notin {"Int", "Reference"} THEN Failed(Base, "panic")
    ELSE IF StackOf(Base) = <<>> THEN Failed(Base, "error")
    ELSE LET operand == Last(StackOf(Base))
             accepted == IF ins.data_type = "Int" THEN {"Byte", "Int"}
                         ELSE {"Reference", "ReturnAddress"}
         IN IF operand.t \notin accepted \/ ins.index >= Len(Top.locals)
            THEN Failed(Base, "panic")
            ELSE [Pop(Base) EXCEPT !.frame.locals[ins.index + 1] = operand]

----------------------------------------------------------------------------
(* Static fields *)

\* the cell (class, key) of a static field in the target class t
StaticCell(t, key) ==
    IF t.res # "next" THEN t @@ [key |-> key]
    ELSE IF key \notin DOMAIN t.classes[t.cls].static_fields
    THEN Failed(t, "error") @@ [key |-> key]
    ELSE t @@ [key |-> key]

GetStaticFieldIn(r, cp, index) ==
    IF index \notin 1..Len(cp) \/ cp[index].tag # "FieldRef"
    THEN Failed(r, "panic") @@ [cls |-> 0, key |-> <<>>]
    ELSE StaticCell(TargetClass(r, cp[index]),
                    <<cp[index].name, cp[index].descriptor>>)

\* CallFrame::get_static_field: the class and key of the cell, or a failure
GetStaticField(r, index) == GetStaticFieldIn(r, Pool(r.frame), index)

\* *field = value
WriteStatic(c, value) ==
    IF c.res # "next" THEN c
    ELSE [c EXCEPT !.classes[c.cls].static_fields[c.key] = value]

\* push(*field)
ReadStatic(c) ==
    IF c.res # "next" THEN c
    ELSE Push(c, c.classes[c.cls].static_fields[c.key])

StepPutstatic(ins) ==
    IF StackOf(Base) = <<>> THEN Failed(Base, "panic")
    ELSE WriteStatic(GetStaticField(Pop(Base), ins.index), Last(StackOf(Base)))

StepGetstatic(ins) == ReadStatic(GetStaticField(Base, ins.index))

----------------------------------------------------------------------------
(* Objects *)

\* the value `new` writes into the cell of a field
FieldDefault(d) ==
    CASE FieldTypeOf(d) = "Int" -> IntV(0)
      [] FieldTypeOf(d) = "Boolean" -> BoolV(FALSE)
      [] FieldTypeOf(d) \in {"Object", "Array"} -> RefV(0)
      [] OTHER -> NoneV

\* the allocation and the loop that writes each field's default
NewObject(l, data) ==
    IF \E i \in 1..Len(data) : data[i] = NoneV
    THEN Failed(l, "panic")
    ELSE Push([l EXCEPT !.heap = Append(@, [kind |-> "Object", class |-> l.cls,
                                            data |-> data])],
              RefV(Len(l.heap) + 1))

NewOf(l) ==
    IF l.res # "next" THEN l
    ELSE NewObject(l, [i \in 1..Len(l.classes[l.cls].fields) |->
                          FieldDefault(l.classes[l.cls].fields[i].descriptor)])

StepNewIn(cp, ins) ==
    IF ins.index \notin 1..Len(cp) THEN Failed(Base, "panic")
    ELSE IF cp[ins.index].tag # "Class" THEN Failed(Base, "error")
    ELSE NewOf(WithLoad(Base, cp[ins.index].name))

StepNew(ins) == StepNewIn(Pool(Top), ins)

\* the outcomes of an access outside the object the reference points to
UBOutcomes == {"abort", "zero"}

NoCell == [cls |-> 0, objectref |-> 0, field_index |-> 0]

\* the cell (object, ordinal) of an instance field in the target class t
InstanceCell(t, key) ==
    IF t.res # "next" THEN t @@ NoCell
    ELSE IF StackOf(t) = <<>> \/ Last(StackOf(t)).t # "Reference"
    THEN Failed(t, "panic") @@ NoCell
    ELSE IF key \notin DOMAIN t.classes[t.cls].field_ordinals
    THEN Failed(Pop(t), "panic") @@ NoCell
    ELSE Pop(t) @@ [objectref |-> Last(StackOf(t)).r,
                    field_index |-> t.classes[t.cls].field_ordinals[key]]

GetInstanceFieldIn(r, cp, index) ==
    IF index \notin 1..Len(cp) THEN Failed(r, "panic") @@ NoCell
    ELSE IF cp[index].tag # "FieldRef" THEN Failed(r, "error") @@ NoCell
    ELSE InstanceCell(TargetClass(r, cp[index]),
                      <<cp[index].name, cp[index].descriptor>>)

\* CallFrame::get_instance_field: the object and ordinal of the cell
GetInstanceField(r, index) == GetInstanceFieldIn(r, Pool(r.frame), index)

\* whether the cell lies inside the object's allocation
CellInObject(hp, objectref, field_index) ==
    /\ objectref \in 1..Len(hp)
    /\ hp[objectref].kind = "Object"
    /\ field_index < Len(hp[objectref].data)

\* *field = value
WriteField(c, value, ub) ==
    IF c.res # "next" THEN c
    ELSE IF ~CellInObject(c.heap, c.objectref, c.field_index)
    THEN (IF ub = "abort" THEN Failed(c, "abort") ELSE c)
    ELSE [c EXCEPT !.heap[c.objectref].data[c.field_index + 1] = value]

\* push(*field)
ReadField(c, ub) ==
    IF c.res # "next" THEN c
    ELSE IF ~CellInObject(c.heap, c.objectref, c.field_index)
    THEN (IF ub = "abort" THEN Failed(c, "abort") ELSE Push(c, IntV(0)))
    ELSE Push(c, c.heap[c.objectref].data[c.field_index + 1])

StepPutfield(ins, ub) ==
    IF StackOf(Base) = <<>> THEN Failed(Base, "panic")
    ELSE WriteField(GetInstanceField(Pop(Base), ins.index),
                    Last(StackOf(Base)), ub)

StepGetfield(ins, ub) == ReadField(GetInstanceField(Base, ins.index), ub)

----------------------------------------------------------------------------
(* Arrays *)

StepNewarray(ins) ==
    IF StackOf(Base) = <<>> \/ Last(StackOf(Base)).t # "Int"
    THEN Failed(Base, "error")
    ELSE LET length == Last(StackOf(Base)).i
             r == Pop(Base)
         IN IF ins.atype # "Int" THEN Failed(r, "panic")
            ELSE IF length < 0 THEN Failed(r, "error")
            ELSE Push([r EXCEPT !.heap =
                          Append(@, [kind |-> "Array", atype |-> ins.atype,
                                     length |-> length,
                                     data |-> [i \in 1..length |-> 0]])],
                      RefV(Len(r.heap) + 1))

\* an arraylength that reports the size of the array's data in bytes
StepArraylengthInBytes(ub) ==
    IF StackOf(Base) = <<>> \/ Last(StackOf(Base)).t # "Reference"
    THEN Failed(Base, "panic")
    ELSE IF Last(StackOf(Base)).r \notin 1..Len(heap)
    THEN (IF ub = "abort" THEN Failed(Pop(Base), "abort")
          ELSE Push(Pop(Base), IntV(0)))
    ELSE IF heap[Last(StackOf(Base)).r].kind # "Array"
    THEN Failed(Pop(Base), "error")
    ELSE Push(Pop(Base), IntV(4 * heap[Last(StackOf(Base)).r].length))

StepArraylength(ub) ==
    IF StackOf(Base) = <<>> \/ Last(StackOf(Base)).t # "Reference"
    THEN Failed(Base, "panic")
    ELSE LET reference == Last(StackOf(Base)).r
             r == Pop(Base)
         IN IF reference \notin 1..Len(heap)
            THEN (IF ub = "abort" THEN Failed(r, "abort") ELSE Push(r, IntV(0)))
            ELSE IF heap[reference].kind # "Array" THEN Failed(r, "error")
            ELSE Push(r, IntV(heap[reference].length))

\* a store that never compares the store type with the array's
StepArraystoreUnchecked(ins) ==
    LET st == StackOf(Base)
        n == Len(st)
    IN
    IF n < 3 \/ st[n - 1].t # "Int" \/ st[n - 2].t # "Reference"
    THEN Failed(Base, "panic")
    ELSE LET value == st[n]
             index == st[n - 1].i
             ptr == st[n - 2].r
             r == [Base EXCEPT !.frame.operand_stack = SubSeq(st, 1, n - 3)]
         IN IF ptr \notin 1..Len(heap) THEN Failed(r, "panic")
            ELSE IF heap[ptr].kind # "Array" THEN Failed(r, "error")
            ELSE IF value.t # "Int" THEN Failed(r, "panic")
            ELSE IF index < 0 \/ index >= heap[ptr].length
            THEN Failed(r, "panic")
            ELSE [r EXCEPT !.heap[ptr].data[index + 1] = value.i]

StepArraystore(ins) ==
    LET st == StackOf(Base)
        n == Len(st)
    IN
    IF n < 3 \/ st[n - 1].t # "Int" \/ st[n - 2].t # "Reference"
    THEN Failed(Base, "panic")
    ELSE LET value == st[n]
             index == st[n - 1].i
             ptr == st[n - 2].r
             r == [Base EXCEPT !.frame.operand_stack = SubSeq(st, 1, n - 3)]
         IN IF ptr \notin 1..Len(heap) THEN Failed(r, "panic")
            ELSE IF heap[ptr].kind # "Array" THEN Failed(r, "error")
            ELSE IF ins.data_type # "Int" THEN Failed(r, "error")
            ELSE IF value.t # "Int" THEN Failed(r, "panic")
            ELSE IF index < 0 \/ index >= heap[ptr].length
            THEN Failed(r, "panic")
            ELSE [r EXCEPT !.heap[ptr].data[index + 1] = value.i]

----------------------------------------------------------------------------
(* Int arithmetic *)

IntMax == 2147483647
IntMin == (0 - IntMax) - 1

\* a + b does not fit an i32
Overflows(a, b) == (b > 0 /\ a > IntMax - b) \/ (b < 0 /\ a < IntMin - b)

\* a + b modulo 2^32, as an i32
WrappingAdd(a, b) ==
    IF ~Overflows(a, b) THEN a + b
    ELSE IF b > 0 THEN ((a - IntMax) + (b - IntMax)) - 2
    ELSE ((a + IntMax) + (b + IntMax)) + 2

\* `+` on i32: a build with overflow checks panics, one without wraps
\* the match on Condition, for the comparison of v1 with v2
Compare(condition, v1, v2) ==
    CASE condition = "Eq" -> v1 = v2
      [] condition = "Ne" -> v1 # v2
      [] condition = "Lt" -> v1 < v2
      [] condition = "Le" -> v1 <= v2
      [] condition = "Gt" -> v1 > v2
      [] condition = "Ge" -> v1 >= v2

\* next_instruction_offset = *branch as isize, if the condition holds
Branching(r, ins, condition) ==
    IF condition THEN [r EXCEPT !.offset = ins.branch] ELSE r

\* a comparison that takes the operand popped first as the left one
StepIfIcmpSwapped(ins) ==
    IF Len(StackOf(Base)) < 2 THEN Failed(Base, "panic")
    ELSE IF Last(StackOf(Base)).t # "Int" \/ Last(Front(StackOf(Base))).t # "Int"
    THEN Failed(Base, "panic")
    ELSE Branching(Pop(Pop(Base)), ins,
                   Compare(ins.condition, Last(StackOf(Base)).i,
                           Last(Front(StackOf(Base))).i))

\* if_icmp: v2 is popped first, then v1; a missing or non-int operand unwraps
StepIfIcmp(ins) ==
    IF Len(StackOf(Base)) < 2 THEN Failed(Base, "panic")
    ELSE IF Last(StackOf(Base)).t # "Int" \/ Last(Front(StackOf(Base))).t # "Int"
    THEN Failed(Base, "panic")
    ELSE Branching(Pop(Pop(Base)), ins,
                   Compare(ins.condition, Last(Front(StackOf(Base))).i,
                           Last(StackOf(Base)).i))

\* if: the operand compared with zero
StepIf(ins) ==
    IF StackOf(Base) = <<>> THEN Failed(Base, "error")
    ELSE IF Last(StackOf(Base)).t # "Int" THEN Failed(Base, "error")
    ELSE Branching(Pop(Base), ins,
                   Compare(ins.condition, Last(StackOf(Base)).i, 0))

StepGoto(ins) == Branching(Base, ins, TRUE)

StepAdd(ins, overflow_checks) ==
    LET st == StackOf(Base)
        n == Len(st)
    IN
    IF n < 2 THEN Failed(Base, "error")
    ELSE IF ins.data_type # "Int" THEN Failed(Base, "panic")
    ELSE IF st[n].t # "Int" \/ st[n - 1].t # "Int" THEN Failed(Base, "error")
    ELSE LET r == [Base EXCEPT !.frame.operand_stack = SubSeq(st, 1, n - 2)]
         IN IF Overflows(st[n].i, st[n - 1].i) /\ overflow_checks
            THEN Failed(r, "panic")
            ELSE Push(r, IntV(WrappingAdd(st[n].i, st[n - 1].i)))

\* `/` on i32: the quotient truncated towards zero
TruncDivPos(a, b) == IF a < 0 /\ a % b # 0 THEN (a \div b) + 1 ELSE a \div b

TruncDiv(a, b) ==
    IF b > 0 THEN TruncDivPos(a, b)
    ELSE IF b = IntMin THEN (IF a = IntMin THEN 1 ELSE 0)
    ELSE 0 - TruncDivPos(a, 0 - b)

\* `%` on i32, for a divisor other than 0 and operands other than (MIN, -1)
RemI32(a, b) == a - TruncDiv(a, b) * b

\* a rem that takes the top of the stack as the dividend
StepRemSwapped(ins) ==
    LET st == StackOf(Base)
        n == Len(st)
    IN
    IF ins.data_type # "Int" THEN Failed(Base, "panic")
    ELSE IF n < 2 \/ st[n].t # "Int" \/ st[n - 1].t # "Int"
    THEN Failed(Base, "panic")
    ELSE LET r == [Base EXCEPT !.frame.operand_stack = SubSeq(st, 1, n - 2)]
         IN IF st[n - 1].i = 0 \/ (st[n].i = IntMin /\ st[n - 1].i = 0 - 1)
            THEN Failed(r, "panic")
            ELSE Push(r, IntV(RemI32(st[n].i, st[n - 1].i)))

\* rem: `%` panics on a zero divisor and on i32::MIN % -1 in every build
StepRem(ins) ==
    LET st == StackOf(Base)
        n == Len(st)
    IN
    IF ins.data_type # "Int" THEN Failed(Base, "panic")
    ELSE IF n < 2 \/ st[n].t # "Int" \/ st[n - 1].t # "Int"
    THEN Failed(Base, "panic")
    ELSE LET r == [Base EXCEPT !.frame.operand_stack = SubSeq(st, 1, n - 2)]
         IN IF st[n].i = 0 \/ (st[n - 1].i = IntMin /\ st[n].i = 0 - 1)
            THEN Failed(r, "panic")
            ELSE Push(r, IntV(RemI32(st[n - 1].i, st[n].i)))

\* the instructions CallFrame::execute has no arm for
Unimplemented ==
    {"athrow", "jsr", "ret", "tableswitch", "lookupswitch", "monitorenter",
     "monitorexit", "nop", "pop", "swap", "checkcast", "instanceof"}

\* a default arm that would skip the instruction
StepSkipped(ins) == Base

\* the default arm
StepUnimplemented(ins) == Failed(Base, "panic")

----------------------------------------------------------------------------
(* print_jvm_value: the rendering written to the stdout sink *)

\* the characters of the names the class files use
Chars(name) ==
    CASE name = "Counter" -> <<"C", "o", "u", "n", "t", "e", "r">>
      [] name = "Main" -> <<"M", "a", "i", "n">>
      [] OTHER -> <<name>>

\* `{elements:?}` of an i32 slice
RECURSIVE DebugElements(_, _)
DebugElements(data, i) ==
    IF i > Len(data) THEN <<>>
    ELSE (IF i > 1 THEN <<",", " ">> ELSE <<>>) \o Digits(data[i])
         \o DebugElements(data, i + 1)

\* fuel counts the objects that may still be entered: a path through more
\* objects than the heap holds is a cycle, on which the recursion never ends
RECURSIVE PrintJvmValue(_, _, _, _)
RECURSIVE PrintFields(_, _, _, _, _, _)
PrintJvmValue(value, hp, arena, fuel) ==
    CASE value.t = "StringConst" -> [res |-> "ok", out |-> value.s]
      [] value.t = "Byte" -> [res |-> "ok", out |-> Digits(value.y)]
      [] value.t = "Int" -> [res |-> "ok", out |-> Digits(value.i)]
      [] value.t = "Long" -> [res |-> "ok", out |-> Digits(value.l)]
      [] value.t = "Reference" ->
            IF value.r \notin 1..Len(hp)
            THEN [res |-> "ok", out |-> <<"n", "u", "l", "l">>]
            ELSE IF hp[value.r].kind = "Array"
            THEN (IF hp[value.r].atype = "Int"
                  THEN [res |-> "ok",
                        out |-> <<"[">> \o DebugElements(hp[value.r].data, 1)
                                \o <<"]">>]
                  ELSE [res |-> "panic", out |-> <<>>])
            ELSE IF fuel = 0 THEN [res |-> "abort", out |-> <<>>]
            ELSE LET class == arena[hp[value.r].class]
                     body == PrintFields(class.fields, hp[value.r].data, 1,
                                         hp, arena, fuel - 1)
                     head == Chars(class.name) \o <<" ", "{">>
                 IN IF body.res # "ok"
                    THEN [res |-> body.res, out |-> head \o body.out]
                    ELSE [res |-> "ok", out |-> head \o body.out \o <<"}">>]
      [] OTHER -> [res |-> "panic", out |-> <<>>]

PrintFields(fields, data, i, hp, arena, fuel) ==
    IF i > Len(fields) THEN [res |-> "ok", out |-> <<>>]
    ELSE LET v == PrintJvmValue(data[i], hp, arena, fuel)
             head == Chars(fields[i].name) \o <<":", " ">>
         IN IF v.res # "ok" THEN [res |-> v.res, out |-> head \o v.out]
            ELSE LET rest == PrintFields(fields, data, i + 1, hp, arena, fuel)
                     sep == IF i - 1 < Len(data) - 1 THEN <<",", " ">> ELSE <<>>
                 IN [res |-> rest.res, out |-> head \o v.out \o sep \o rest.out]

----------------------------------------------------------------------------
(* Invocation (CallFrame::execute_invoke, CallFrame::new) *)

SystemTimeMillis == 1000

\* a lookup that stops at the class the method-ref names
FindMethodNoSuper(arena, cls, name, descriptor) ==
    IF cls = 0 THEN [cls |-> 0, mindex |-> 0]
    ELSE IF MethodIndex(ClassFiles(arena[cls].name), name, descriptor) # 0
    THEN [cls |-> cls,
          mindex |-> MethodIndex(ClassFiles(arena[cls].name), name, descriptor)]
    ELSE [cls |-> 0, mindex |-> 0]

\* the method lookup loop along super_class: [cls, mindex], cls = 0 if absent
RECURSIVE FindMethod(_, _, _, _)
FindMethod(arena, cls, name, descriptor) ==
    IF cls = 0 THEN [cls |-> 0, mindex |-> 0]
    ELSE IF MethodIndex(ClassFiles(arena[cls].name), name, descriptor) # 0
    THEN [cls |-> cls,
          mindex |-> MethodIndex(ClassFiles(arena[cls].name), name, descriptor)]
    ELSE FindMethod(arena, arena[cls].super_class, name, descriptor)

\* the arguments invokestatic hands to CallFrame::new: one pop per parameter
StaticArgs(stack, k) == [i \in 1..k |-> stack[Len(stack) - i + 1]]

\* the slice taken top first
SliceArgsTopFirst(stack, nargs) == [i \in 1..nargs |-> stack[Len(stack) - i + 1]]

\* the arguments invokespecial and invokevirtual clone from the stack
SliceArgs(stack, nargs) == SubSeq(stack, Len(stack) - nargs + 1, Len(stack))

\* the class invokestatic gives the callee's frame
StaticFrameClass(r, found) == r.frame.class

\* the method record a lookup found
FoundMethod(r, found) ==
    ClassFiles(r.classes[found.cls].name).methods[found.mindex]

\* CallFrame::new followed by the start of execute
EnterMethod(r, class, found, method, args, nargs) ==
    IF ~method.body.present THEN Failed(r, "error")
    ELSE IF Len(args) > method.body.locals THEN Failed(r, "panic")
    ELSE IF "SYNCHRONIZED" \in method.access_flags THEN Failed(r, "panic")
    ELSE [r EXCEPT !.res = "call"] @@
         [callee |-> [class |-> class, mclass |-> r.classes[found.cls].name,
                      mindex |-> found.mindex,
                      locals |-> [i \in 1..method.body.locals |->
                                     IF i <= Len(args) THEN args[i] ELSE NoneV],
                      operand_stack |-> <<>>, pc |-> 0, nargs |-> nargs]]

EnterFrame(r, class, found, args, nargs) ==
    EnterMethod(r, class, found, FoundMethod(r, found), args, nargs)

\* the native print: the operand rendered to the stdout sink
Printed(r, p) ==
    [Pop(r) EXCEPT !.stdout = @ \o p.out,
                   !.res = IF p.res = "ok" THEN "next" ELSE p.res]

InvokeNative(r, name) ==
    CASE name = "registerNatives" -> r
      [] name = "print" ->
            IF StackOf(r) = <<>> THEN Failed(r, "error")
            ELSE Printed(r, PrintJvmValue(Last(StackOf(r)), r.heap, r.classes,
                                          Len(r.heap)))
      [] name = "currentTimeMillis" -> Push(r, LongV(SystemTimeMillis))
      [] OTHER -> Failed(r, "panic")

InvokeStaticOf(r, found, name, method, st, k) ==
    IF "NATIVE" \in method.access_flags THEN InvokeNative(r, name)
    ELSE IF ~method.body.present THEN Failed(r, "error")
    ELSE IF Len(st) < k \/ \E i \in 1..k : st[Len(st) - i + 1].t # "Int"
    THEN Failed(r, "panic")
    ELSE EnterFrame([r EXCEPT !.frame.operand_stack = SubSeq(st, 1, Len(st) - k)],
                    StaticFrameClass(r, found), found, StaticArgs(st, k), 0)

InvokeStatic(r, found, name) ==
    InvokeStaticOf(r, found, name, FoundMethod(r, found), StackOf(r),
                   Len(FoundMethod(r, found).params))

InvokeSpecialOf(r, found, nargs) ==
    IF Len(StackOf(r)) < nargs THEN Failed(r, "panic")
    ELSE EnterFrame(r, found.cls, found, SliceArgs(StackOf(r), nargs), nargs)

InvokeSpecial(r, found) ==
    InvokeSpecialOf(r, found, Len(FoundMethod(r, found).params) + 1)

\* a dispatch that takes the method resolution found, whatever the receiver
SelectResolved(r, found, objectref, name, descriptor) == found

\* the class and method invokevirtual selects for a receiver
SelectVirtual(r, found, objectref, name, descriptor) ==
    FindMethod(r.classes, r.heap[objectref].class, name, descriptor)

\* the frame of the method selected
EnterSelected(r, selected, args, nargs) ==
    IF selected.cls = 0 THEN Failed(r, "error")
    ELSE EnterFrame(r, selected.cls, selected, args, nargs)

InvokeVirtualOf(r, found, name, descriptor, method, args, nargs) ==
    IF "PRIVATE" \in method.access_flags
    THEN EnterFrame(r, found.cls, found, args, nargs)
    ELSE IF args[1].t # "Reference" \/ args[1].r \notin 1..Len(r.heap)
    THEN Failed(r, "panic")
    ELSE IF r.heap[args[1].r].kind # "Object" THEN Failed(r, "panic")
    ELSE EnterSelected(r, SelectVirtual(r, found, args[1].r, name, descriptor),
                       args, nargs)

InvokeVirtualArgs(r, found, name, descriptor, nargs) ==
    IF Len(StackOf(r)) < nargs THEN Failed(r, "panic")
    ELSE InvokeVirtualOf(r, found, name, descriptor, FoundMethod(r, found),
                         SliceArgs(StackOf(r), nargs), nargs)

InvokeVirtual(r, found, name, descriptor) ==
    InvokeVirtualArgs(r, found, name, descriptor,
                      Len(FoundMethod(r, found).params) + 1)

\* the match on the invoke kind, the method being found
InvokeFound(ins, ref, t, found) ==
    IF found.cls = 0 THEN Failed(t, "error")
    ELSE CASE ins.kind = "Static" -> InvokeStatic(t, found, ref.name)
           [] ins.kind = "Special" -> InvokeSpecial(t, found)
           [] ins.kind = "Virtual" ->
                 InvokeVirtual(t, found, ref.name, ref.descriptor)
           [] OTHER -> Failed(t, "panic")

\* the method lookup from the target class t of the method-ref
InvokeTarget(ins, ref, t) ==
    IF t.res # "next" THEN t
    ELSE InvokeFound(ins, ref, t,
                     FindMethod(t.classes, t.cls, ref.name, ref.descriptor))

StepInvokeIn(cp, ins) ==
    IF ins.index \notin 1..Len(cp) THEN Failed(Base, "panic")
    ELSE IF cp[ins.index].tag # "MethodRef" THEN Failed(Base, "error")
    ELSE InvokeTarget(ins, cp[ins.index], TargetClass(Base, cp[ins.index]))

StepInvoke(ins) == StepInvokeIn(Pool(Top), ins)

\* the return instruction: the value handed to the caller, None for void
StepReturn(ins) ==
    IF "SYNCHRONIZED" \in MethodOf(Top).access_flags THEN Failed(Base, "panic")
    ELSE IF ins.data_type = "Void" THEN [Base EXCEPT !.res = "return"] @@ [ret |-> NoneV]
    ELSE IF ins.data_type = "Int"
    THEN (IF StackOf(Base) = <<>> THEN Failed(Base, "error")
          ELSE [Pop(Base) EXCEPT !.res = "return"] @@ [ret |-> Last(StackOf(Base))])
    ELSE Failed(Base, "panic")

\* a return that leaves the caller nothing but the value
ResumeEmptied(caller, nargs, ret) ==
    [caller EXCEPT !.operand_stack = IF ret = NoneV THEN <<>> ELSE <<ret>>,
                   !.pc = @ + 1]

\* execute_invoke after the callee returned: drop the arguments, push the value
Resume(caller, nargs, ret) ==
    LET kept == SubSeq(caller.operand_stack, 1, Len(caller.operand_stack) - nargs)
    IN [caller EXCEPT !.operand_stack = IF ret = NoneV THEN kept
                                        ELSE Append(kept, ret),
                      !.pc = @ + 1]

----------------------------------------------------------------------------
(* History: the fields of the program, as the class files declare them *)

SuperName(name) ==
    LET cf == ClassFiles(name) IN
    IF cf.super_class = 0 THEN "" ELSE cf.constant_pool[cf.super_class].name

InstanceFields(name) ==
    LET infos == ClassFiles(name).fields IN
    SelectSeq([i \in 1..Len(infos) |-> [name |-> infos[i].name,
                                        descriptor |-> infos[i].descriptor,
                                        static |-> infos[i].static]],
              LAMBDA f : ~f.static)

\* the number of instance fields of a class and its super classes
RECURSIVE LayoutSize(_)
LayoutSize(name) ==
    IF name = "" THEN 0 ELSE LayoutSize(SuperName(name)) + Len(InstanceFields(name))

\* the class that declares the field a field-ref names: the nearest on the
\* super chain from the class of the field-ref
RECURSIVE DeclaringClass(_, _, _)
DeclaringClass(name, field, descriptor) ==
    IF name = "" THEN ""
    ELSE IF \E i \in 1..Len(InstanceFields(name)) :
               /\ InstanceFields(name)[i].name = field
               /\ InstanceFields(name)[i].descriptor = descriptor
    THEN name
    ELSE DeclaringClass(SuperName(name), field, descriptor)

\* the position (from 0) of that field in an object: inherited fields first,
\* then the class's own in declaration order; -1 if no class declares it
LogicalIndex(name, field, descriptor) ==
    LET d == DeclaringClass(name, field, descriptor) IN
    IF d = "" THEN 0 - 1
    ELSE LayoutSize(SuperName(d))
         + (CHOOSE i \in 1..Len(InstanceFields(d)) :
               /\ InstanceFields(d)[i].name = field
               /\ InstanceFields(d)[i].descriptor = descriptor) - 1

RECURSIVE IsSubclass(_, _)
IsSubclass(name, ancestor) ==
    IF name = "" THEN FALSE
    ELSE name = ancestor \/ IsSubclass(SuperName(name), ancestor)

\* the field-ref an instruction names, in the constant pool of its frame
RefOf(before, ins) == Pool(before)[ins.index]
RefOwner(before, ins) == Pool(before)[RefOf(before, ins).class_index].name

\* the object a getfield or putfield was applied to (0 if none)
Receiver(before, ins) ==
    LET st == before.operand_stack
        at == IF ins.op = "putfield" THEN Len(st) - 1 ELSE Len(st)
    IN IF at >= 1 /\ st[at].t = "Reference" THEN st[at].r ELSE 0

ShadowAfter(ins, r) ==
    IF r.res # "next" THEN shadow
    ELSE CASE ins.op = "putstatic" ->
                [shadow EXCEPT !.statics =
                    MapPut(@, <<RefOwner(Top, ins), RefOf(Top, ins).name,
                                RefOf(Top, ins).descriptor>>,
                           Last(Top.operand_stack))]
           [] ins.op = "new" ->
                [shadow EXCEPT !.objects = Append(@, [i \in 1..Len(Last(r.heap).data)
                                                        |-> NoneV]),
                               !.lengths = Append(@, 0 - 1)]
           [] ins.op = "newarray" ->
                [shadow EXCEPT !.objects = Append(@, <<>>),
                               !.lengths = Append(@, Last(Top.operand_stack).i)]
           [] ins.op = "putfield" ->
                LET o == Receiver(Top, ins)
                    li == LogicalIndex(RefOwner(Top, ins), RefOf(Top, ins).name,
                                       RefOf(Top, ins).descriptor)
                IN IF o \in 1..Len(shadow.objects) /\ li >= 0
                      /\ li < Len(shadow.objects[o])
                   THEN [shadow EXCEPT !.objects[o][li + 1] = Last(Top.operand_stack)]
                   ELSE shadow
           [] OTHER -> shadow

----------------------------------------------------------------------------
(* The interpreter loop of CallFrame::execute, one instruction per step *)

NoFrame ==
    [class |-> 0, mclass |-> "", mindex |-> 0, locals |-> <<>>,
     operand_stack |-> <<>>, pc |-> 0, nargs |-> 0]

\* the frame that waits for the running frame to return
Under == IF Len(frames) >= 2 THEN frames[Len(frames) - 1] ELSE NoFrame

Apply(ins, r) ==
    /\ classes' = r.classes
    /\ heap' = r.heap
    /\ stdout' = r.stdout
    /\ console' = r.console
    /\ clinitRuns' = r.runs
    /\ last' = [ins |-> ins, res |-> r.res, before |-> Top, under |-> Under,
                depth |-> Len(frames)]
    /\ shadow' = ShadowAfter(ins, r)
    /\ UNCHANGED <<hostRefs, limit, unitVars, classpath>>
    /\ IF r.res = "next" /\ r.frame.pc + r.offset >= 0
       THEN /\ frames' = [frames EXCEPT ![Len(frames)] =
                             [r.frame EXCEPT !.pc = @ + r.offset]]
            /\ UNCHANGED status
       ELSE IF r.res = "next"
       THEN frames' = <<>> /\ status' = "error"
       ELSE IF r.res = "call"
       THEN /\ frames' = Append([frames EXCEPT ![Len(frames)] = r.frame], r.callee)
            /\ UNCHANGED status
       ELSE IF r.res = "return" /\ Len(frames) = 1
       THEN frames' = <<>> /\ status' = "done"
       ELSE IF r.res = "return"
       THEN /\ frames' = Append(SubSeq(frames, 1, Len(frames) - 2),
                                Resume(frames[Len(frames) - 1], Top.nargs, r.ret))
            /\ UNCHANGED status
       ELSE frames' = <<>> /\ status' = r.res

\* the instructions the running frame may hold at pc: the next instruction of
\* the entry method is any of `menu`, a linked method's is the one decoded
Fetched(menu) ==
    IF status # "running" \/ frames = <<>> THEN {}
    ELSE IF IsEntry(Top) /\ Top.pc = Len(prog) THEN menu
    ELSE IF Top.pc < Len(Code(Top)) THEN {Code(Top)[Top.pc + 1]}
    ELSE {}

\* the instructions between a forward branch and its target, which a branch
\* at the end of the revealed code brings with it: `filler`, as many as the
\* branch skips, or fewer when the code array ends before the target
Gaps(ins, filler) ==
    IF ~(IsEntry(Top) /\ Top.pc = Len(prog)) \/ ins.branch <= 1 THEN {<<>>}
    ELSE {[i \in 1..n |-> filler] : n \in 0..(ins.branch - 1)}

\* let instruction = &body.code[pc] for a branch: the entry method's code is
\* revealed up to the branch target
FetchAhead(ins, gap) ==
    /\ status = "running"
    /\ frames # <<>>
    /\ IF IsEntry(Top) /\ Top.pc = Len(prog)
       THEN Len(prog) + 1 + Len(gap) <= limit /\ prog' = Append(prog, ins) \o gap
       ELSE /\ Top.pc < Len(Code(Top))
            /\ Code(Top)[Top.pc + 1] = ins
            /\ UNCHANGED prog

Conditions == {"Eq", "Ne", "Lt", "Le", "Gt", "Ge"}

ExecIf(branches, filler) ==
    \E ins \in Fetched({If(c, b) : c \in Conditions, b \in branches}) :
        \E gap \in Gaps(ins, filler) :
            ins.op = "if" /\ FetchAhead(ins, gap) /\ Apply(ins, StepIf(ins))

ExecIfIcmp(branches, filler) ==
    \E ins \in Fetched({IfIcmp(c, b) : c \in Conditions, b \in branches}) :
        \E gap \in Gaps(ins, filler) :
            ins.op = "if_icmp" /\ FetchAhead(ins, gap) /\ Apply(ins, StepIfIcmp(ins))

ExecGoto(branches, filler) ==
    \E ins \in Fetched({Goto(b) : b \in branches}) :
        \E gap \in Gaps(ins, filler) :
            ins.op = "goto" /\ FetchAhead(ins, gap) /\ Apply(ins, StepGoto(ins))

\* sipush has no arm of its own in CallFrame::execute: the default arm
ExecSipush(values) ==
    \E ins \in Fetched({Sipush(v) : v \in values}) :
        ins.op = "sipush" /\ Fetch(ins) /\ Apply(ins, StepUnimplemented(ins))

ExecBipush(values) ==
    \E ins \in Fetched({Bipush(v) : v \in values}) :
        ins.op = "bipush" /\ Fetch(ins) /\ Apply(ins, StepBipush(ins))

ExecAconstNull ==
    \E ins \in Fetched({Simple("aconst_null")}) :
        ins.op = "aconst_null" /\ Fetch(ins) /\ Apply(ins, StepAconstNull)

ExecLdc(indices) ==
    \E ins \in Fetched({Ldc(ix) : ix \in indices}) :
        ins.op = "ldc" /\ Fetch(ins) /\ Apply(ins, StepLdc(ins))

ExecDup ==
    \E ins \in Fetched({Simple("dup")}) :
        ins.op = "dup" /\ Fetch(ins) /\ Apply(ins, StepDup)

ExecLoad(types, indices) ==
    \E ins \in Fetched({Load(ty, ix) : ty \in types, ix \in indices}) :
        ins.op = "load" /\ Fetch(ins) /\ Apply(ins, StepLoad(ins))

ExecStore(types, indices) ==
    \E ins \in Fetched({Store(ty, ix) : ty \in types, ix \in indices}) :
        ins.op = "store" /\ Fetch(ins) /\ Apply(ins, StepStore(ins))

ExecAdd ==
    \E ins \in Fetched({Add("Int")}), overflow_checks \in BOOLEAN :
        ins.op = "add" /\ Fetch(ins) /\ Apply(ins, StepAdd(ins, overflow_checks))

ExecPutstatic(indices) ==
    \E ins \in Fetched({Putstatic(ix) : ix \in indices}) :
        ins.op = "putstatic" /\ Fetch(ins) /\ Apply(ins, StepPutstatic(ins))

ExecGetstatic(indices) ==
    \E ins \in Fetched({Getstatic(ix) : ix \in indices}) :
        ins.op = "getstatic" /\ Fetch(ins) /\ Apply(ins, StepGetstatic(ins))

ExecNew(indices) ==
    \E ins \in Fetched({New(ix) : ix \in indices}) :
        ins.op = "new" /\ Fetch(ins) /\ Apply(ins, StepNew(ins))

ExecPutfield(indices) ==
    \E ins \in Fetched({Putfield(ix) : ix \in indices}), ub \in UBOutcomes :
        ins.op = "putfield" /\ Fetch(ins) /\ Apply(ins, StepPutfield(ins, ub))

ExecGetfield(indices) ==
    \E ins \in Fetched({Getfield(ix) : ix \in indices}), ub \in UBOutcomes :
        ins.op = "getfield" /\ Fetch(ins) /\ Apply(ins, StepGetfield(ins, ub))

ExecNewarray(types) ==
    \E ins \in Fetched({Newarray(ty) : ty \in types}) :
        ins.op = "newarray" /\ Fetch(ins) /\ Apply(ins, StepNewarray(ins))

ExecArraylength ==
    \E ins \in Fetched({Simple("arraylength")}), ub \in UBOutcomes :
        ins.op = "arraylength" /\ Fetch(ins) /\ Apply(ins, StepArraylength(ub))

ExecArraystore(types) ==
    \E ins \in Fetched({Arraystore(ty) : ty \in types}) :
        ins.op = "arraystore" /\ Fetch(ins) /\ Apply(ins, StepArraystore(ins))

ExecInvoke(kinds, indices) ==
    \E ins \in Fetched({Invoke(k, ix) : k \in kinds, ix \in indices}) :
        ins.op = "invoke" /\ Fetch(ins) /\ Apply(ins, StepInvoke(ins))

ExecReturn(types) ==
    \E ins \in Fetched({Return(ty) : ty \in types}) :
        ins.op = "return" /\ Fetch(ins) /\ Apply(ins, StepReturn(ins))

ExecRem ==
    \E ins \in Fetched({Rem("Int")}) :
        ins.op = "rem" /\ Fetch(ins) /\ Apply(ins, StepRem(ins))

ExecUnimplemented(ops) ==
    \E ins \in Fetched({Simple(o) : o \in ops}) :
        ins.op \in Unimplemented /\ Fetch(ins) /\ Apply(ins, StepUnimplemented(ins))

\* &body.code[pc] with pc past the last instruction
ExecPastEnd ==
    /\ status = "running"
    /\ frames # <<>>
    /\ Top.pc >= Len(Code(Top))
    /\ frames' = <<>>
    /\ status' = "panic"
    /\ last' = [ins |-> Simple("none"), res |-> "panic", before |-> Top,
                under |-> Under, depth |-> Len(frames)]
    /\ UNCHANGED <<classes, heap, stdout, console, hostRefs, prog, clinitRuns,
                   shadow, limit, unitVars, classpath>>

----------------------------------------------------------------------------
(* The host: load_class_file, then the entry method in a CallFrame *)

HostLoadClassFile(names) ==
    \E name \in names :
        /\ status = "idle"
        /\ Len(hostRefs) < MaxHostLoads
        /\ LET l == LoadClassFile(name, [classes |-> classes, console |-> console,
                                         runs |-> clinitRuns])
           IN /\ classes' = l.vm.classes
              /\ console' = l.vm.console
              /\ clinitRuns' = l.vm.runs
              /\ hostRefs' = Append(hostRefs, l.cls)
              /\ status' = IF l.res = "ok" THEN "idle" ELSE l.res
              /\ last' = [ins |-> [op |-> "load_class_file", name |-> name],
                          res |-> l.res, before |-> NoFrame, under |-> NoFrame,
                          depth |-> 0]
        /\ UNCHANGED <<heap, frames, stdout, prog, shadow, limit, unitVars, classpath>>

HostExecute ==
    \E h \in 1..Len(hostRefs) :
        /\ status = "idle"
        /\ hostRefs[h] # 0
        /\ classes[hostRefs[h]].name = "Main"
        /\ LET m == MethodIndex(FileMain, "main", MainDesc)
               method == FileMain.methods[m]
           IN frames' = <<[class |-> hostRefs[h], mclass |-> "Main", mindex |-> m,
                           locals |-> [i \in 1..method.body.locals |-> NoneV],
                           operand_stack |-> <<>>, pc |-> 0, nargs |-> 0]>>
        /\ status' = "running"
        /\ last' = [ins |-> Simple("execute"), res |-> "call", before |-> NoFrame,
                    under |-> NoFrame, depth |-> 0]
        /\ UNCHANGED <<classes, heap, stdout, console, hostRefs, prog, clinitRuns,
                       shadow, limit, unitVars, classpath>>

\* the VM after Vm::new, about to run programs of up to max_code instructions
InitVm(max_code) ==
    /\ classes = <<>>
    /\ heap = <<>>
    /\ frames = <<>>
    /\ status = "idle"
    /\ stdout = <<>>
    /\ console = <<>>
    /\ hostRefs = <<>>
    /\ prog = <<>>
    /\ clinitRuns = [n \in FileNames |-> 0]
    /\ last = [ins |-> Simple("none"), res |-> "none", before |-> NoFrame,
               under |-> NoFrame, depth |-> 0]
    /\ shadow = [statics |-> EmptyMap, objects |-> <<>>, lengths |-> <<>>]
    /\ limit = max_code
    /\ classpath = [n \in FileNames |-> DiskFiles(n)]

NotDecoded == [res |-> "none"]

\* no code array is being decoded
DecoderIdle ==
    /\ bytes = [pad |-> 0, tail |-> <<>>]
    /\ decoded = NotDecoded

NotRead == [res |-> "none"]

\* no constant pool is being read
ReaderIdle ==
    /\ stream = [count |-> 0, entries |-> <<>>]
    /\ reader = NotRead

UnitsIdle == DecoderIdle /\ ReaderIdle

----------------------------------------------------------------------------
(* Loading: the host loads any class files, the program allocates and reads *)

MaxCodeLoad == 3

InitLoad == InitVm(MaxCodeLoad) /\ UnitsIdle

NextLoad ==
    \/ HostLoadClassFile(FileNames \cup {"Missing"})
    \/ HostExecute
    \/ ExecNew({5, 6, 7})
    \/ ExecGetstatic({4})
    \/ ExecPastEnd

SpecLoad == InitLoad /\ [][NextLoad]_vars

----------------------------------------------------------------------------
(* Claims about loading and linking, under SpecLoad *)

\* the linked classes on the super chain of the linked class c, c excluded
RECURSIVE SuperChain(_)
SuperChain(c) ==
    IF classes[c].super_class = 0 THEN {}
    ELSE {classes[c].super_class} \cup SuperChain(classes[c].super_class)

HasStaticClinit(name) ==
    \E i \in 1..Len(ClassFiles(name).methods) :
        /\ ClassFiles(name).methods[i].name = "<clinit>"
        /\ ClassFiles(name).methods[i].descriptor = "()V"
        /\ "STATIC" \in ClassFiles(name).methods[i].access_flags

\* C1: class loading is cached, so at most one linked Class ever exists per
\* internal class name: no two entries of the metadata arena have one name.
C1_OneClassPerName ==
    \A i, j \in 1..Len(classes) : classes[i].name = classes[j].name => i = j

\* C2: the static <clinit>()V of every class that has been linked has run
\* exactly once, however often the class was loaded or referenced.
C2_ClinitExactlyOnce ==
    \A n \in FileNames :
        (HasStaticClinit(n) /\ \E i \in 1..Len(classes) : classes[i].name = n)
            => clinitRuns[n] = 1

\* C7: inherited instance-field ordinals are stable: every linked class S
\* gives each instance field of each of its super classes C the ordinal C
\* gives it.
C7_InheritedOrdinalsStable ==
    \A s \in 1..Len(classes) :
        \A c \in SuperChain(s) :
            \A f \in 1..Len(classes[c].fields) :
                LET key == <<classes[c].fields[f].name,
                             classes[c].fields[f].descriptor>>
                IN /\ key \in DOMAIN classes[s].field_ordinals
                   /\ classes[s].field_ordinals[key] = classes[c].field_ordinals[key]

----------------------------------------------------------------------------
(* Static fields: Main writes and reads its own and Counter's static field *)

MaxCodeStatic == 4

InitStatic == InitVm(MaxCodeStatic) /\ UnitsIdle

NextStatic ==
    \/ HostLoadClassFile({"Main", "Counter"})
    \/ HostExecute
    \/ ExecBipush({1, 2})
    \/ ExecPutstatic({2, 4})
    \/ ExecGetstatic({2, 4})
    \/ ExecPastEnd

SpecStatic == InitStatic /\ [][NextStatic]_vars

\* the static field (owner class, name, descriptor) the last instruction named
LastStaticField ==
    <<RefOwner(last.before, last.ins), RefOf(last.before, last.ins).name,
      RefOf(last.before, last.ins).descriptor>>

\* C3: a getstatic pushes the value the most recent putstatic wrote to that
\* static field (owner class, name, descriptor), also when the owner is not
\* the running class.
C3_StaticReadAfterWrite ==
    (/\ last.ins.op = "getstatic"
     /\ last.res = "next"
     /\ LastStaticField \in DOMAIN shadow.statics)
        => Last(Top.operand_stack) = shadow.statics[LastStaticField]

\* the same for a field of the running class alone
StaticReadAfterWriteSameClass ==
    (/\ last.ins.op = "getstatic"
     /\ last.res = "next"
     /\ LastStaticField \in DOMAIN shadow.statics
     /\ RefOwner(last.before, last.ins) = last.before.mclass)
        => Last(Top.operand_stack) = shadow.statics[LastStaticField]

----------------------------------------------------------------------------
(* Calls: Main allocates receivers and invokes static and virtual methods *)

MaxCodeCall == 3

InitCall == InitVm(MaxCodeCall) /\ UnitsIdle

NextCall ==
    \/ HostLoadClassFile({"Main"})
    \/ HostExecute
    \/ ExecBipush({1, 2})
    \/ ExecAconstNull
    \/ ExecNew({5, 6})
    \/ ExecLoad({"Int"}, {0})
    \/ ExecInvoke({"Static", "Virtual"}, {13, 14, 17, 18, 19})
    \/ ExecReturn({"Int", "Void", "Reference"})
    \/ ExecPastEnd

SpecCall == InitCall /\ [][NextCall]_vars

\* the nearest class on the super chain from `name` whose class file declares
\* the method, "" if none
RECURSIVE Declarer(_, _, _)
Declarer(name, method, descriptor) ==
    IF name = "" THEN ""
    ELSE IF MethodIndex(ClassFiles(name), method, descriptor) # 0 THEN name
    ELSE Declarer(SuperName(name), method, descriptor)

\* the method the method-ref of the last invoke resolves to
LastResolved ==
    LET ref == RefOf(last.before, last.ins)
        d == Declarer(RefOwner(last.before, last.ins), ref.name, ref.descriptor)
    IN ClassFiles(d).methods[MethodIndex(ClassFiles(d), ref.name, ref.descriptor)]

\* the receiver of the last invokevirtual: the objectref below its arguments
LastReceiver ==
    last.before.operand_stack[Len(last.before.operand_stack)
                              - Len(LastResolved.params)]

\* C4: an invokevirtual of a non-private method executes the first method of
\* that name and descriptor on the super chain from the receiver's runtime
\* class, so a subclass's override runs for a method-ref naming the super class.
C4_VirtualDispatch ==
    (/\ last.ins.op = "invoke"
     /\ last.ins.kind = "Virtual"
     /\ last.res = "call"
     /\ "PRIVATE" \notin LastResolved.access_flags)
        => LET ref == RefOf(last.before, last.ins)
               runtime == classes[heap[LastReceiver.r].class].name
               selected == Declarer(runtime, ref.name, ref.descriptor)
           IN /\ Top.mclass = selected
              /\ Top.mindex = MethodIndex(ClassFiles(selected), ref.name,
                                          ref.descriptor)
              /\ classes[Top.class].name = selected

\* an invokevirtual through the method-ref A.sound()I on a receiver of class S
\* has entered S.sound()I
C4_Witness ==
    /\ last.ins = Invoke("Virtual", 13)
    /\ last.res = "call"
    /\ classes[heap[LastReceiver.r].class].name = "S"
    /\ Top.mclass = "S"
    /\ MethodOf(Top).name = "sound"

\* C5: invokestatic of a non-native method with k parameters puts the value at
\* caller stack position top-k+i in callee local i and removes the k arguments
\* from the caller's stack.
C5_StaticArgsInOrder ==
    (/\ last.ins.op = "invoke"
     /\ last.ins.kind = "Static"
     /\ last.res = "call")
        => LET k == Len(MethodOf(Top).params)
               st == last.before.operand_stack
           IN /\ \A i \in 1..k : Top.locals[i] = st[Len(st) - k + i]
              /\ Under.operand_stack = SubSeq(st, 1, Len(st) - k)

\* C6: a non-void return of any type hands the callee's top operand to the
\* caller, which pushes it; a void return hands nothing and nothing is pushed.
C6_ReturnDeliversValue ==
    (/\ last.ins.op = "return"
     /\ last.depth >= 2
     /\ last.ins.data_type = "Void" \/ last.before.operand_stack # <<>>)
        => /\ status = "running"
           /\ Len(frames) = last.depth - 1
           /\ LET kept == SubSeq(last.under.operand_stack, 1,
                                 Len(last.under.operand_stack) - last.before.nargs)
              IN Top.operand_stack =
                    IF last.ins.data_type = "Void" THEN kept
                    ELSE Append(kept, Last(last.before.operand_stack))

----------------------------------------------------------------------------
(* Instance fields: Main allocates H objects, writes and reads their fields *)

MaxCodeField == 8
MaxObjectsField == 1    \* objects the program allocates
MaxStackField == 4      \* operands the program has on its stack

InitField == InitVm(MaxCodeField) /\ UnitsIdle

\* the running frame has room for one more operand
StackBelow(n) == frames # <<>> /\ Len(Top.operand_stack) < n

NextField ==
    \/ HostLoadClassFile({"Main"})
    \/ HostExecute
    \/ Len(heap) < MaxObjectsField /\ ExecNew({7})
    \/ StackBelow(MaxStackField) /\ ExecDup
    \/ StackBelow(MaxStackField) /\ ExecBipush({1, 2})
    \/ ExecPutfield({11, 12})
    \/ ExecGetfield({11, 12})
    \/ ExecPastEnd

SpecField == InitField /\ [][NextField]_vars

\* the position, in declared order, of the field the last instruction named
LastLogicalIndex ==
    LogicalIndex(RefOwner(last.before, last.ins),
                 RefOf(last.before, last.ins).name,
                 RefOf(last.before, last.ins).descriptor)

\* C8: a getfield of field f of an object o made by `new` pushes the value of
\* the most recent putfield to (o, f), whatever was written since to other
\* fields of o or to other objects, and whichever class's field-ref names f.
C8_FieldReadAfterWrite ==
    (/\ last.ins.op = "getfield"
     /\ last.res = "next"
     /\ Receiver(last.before, last.ins) \in 1..Len(shadow.objects)
     /\ LastLogicalIndex >= 0
     /\ LastLogicalIndex < Len(shadow.objects[Receiver(last.before, last.ins)])
     /\ shadow.objects[Receiver(last.before, last.ins)][LastLogicalIndex + 1] # NoneV)
        => Last(Top.operand_stack) =
              shadow.objects[Receiver(last.before, last.ins)][LastLogicalIndex + 1]

----------------------------------------------------------------------------
(* Arrays: Main allocates int arrays, stores into them and asks their length *)

MaxCodeArray == 7
MaxArrays == 1          \* arrays the program allocates
MaxStackArray == 4      \* operands the program has on its stack

InitArray == InitVm(MaxCodeArray) /\ UnitsIdle

NextArray ==
    \/ HostLoadClassFile({"Main"})
    \/ HostExecute
    \/ StackBelow(MaxStackArray) /\ ExecBipush({0 - 1, 0, 2})
    \/ StackBelow(MaxStackArray) /\ ExecDup
    \/ Len(heap) < MaxArrays /\ ExecNewarray({"Int", "Long"})
    \/ ExecArraystore({"Int"})
    \/ ExecArraylength
    \/ ExecPastEnd

SpecArray == InitArray /\ [][NextArray]_vars

\* the operand the last instruction popped first
LastOperand == Last(last.before.operand_stack)

\* the last instruction was an arraylength applied to an array made by newarray
LastLengthOfArray ==
    /\ last.ins.op = "arraylength"
    /\ last.before.operand_stack # <<>>
    /\ LastOperand.t = "Reference"
    /\ LastOperand.r \in 1..Len(shadow.lengths)
    /\ shadow.lengths[LastOperand.r] >= 0

\* C9: arraylength on the reference newarray made for a popped length n >= 0
\* pushes Int n, however many array stores to that array came between.
C9_ArrayLength ==
    LastLengthOfArray
        => /\ last.res = "next"
           /\ Top.operand_stack =
                 Append(Front(last.before.operand_stack),
                        IntV(shadow.lengths[LastOperand.r]))

\* the length 2 was reported for an array of 2 elements after a store into it
C9_Witness ==
    /\ LastLengthOfArray
    /\ shadow.lengths[LastOperand.r] = 2
    /\ heap[LastOperand.r].data[1] = 2
    /\ Last(Top.operand_stack) = IntV(2)


(***************************************************************************)
(* decode_instructions (class.rs).  A code array is a run of `pad` nop     *)
(* bytes followed by the bytes of `tail`; the run is kept as a count, and  *)
(* the loop's effect on it is that instruction k of the run sits at        *)
(* address k.  The byte values of the opcodes come from the opcode table,  *)
(* which is the published JVM instruction set.                             *)
(***************************************************************************)
I16Max == 32767
LongPad == I16Max + 2
Pads == {0, 1, LongPad}

\* The bytes a code array is built from: each one is an opcode when the
\* cursor reads it as one and an operand otherwise.
OpCodeFromRepr(b) ==
    CASE b = 0 -> "nop"
      [] b = 1 -> "aconst_null"
      [] b = 3 -> "iconst_0"
      [] b = 16 -> "bipush"
      [] b = 17 -> "sipush"
      [] b = 46 -> "iaload"
      [] b = 47 -> "laload"
      [] b = 48 -> "faload"
      [] b = 49 -> "daload"
      [] b = 50 -> "aaload"
      [] b = 51 -> "baload"
      [] b = 52 -> "caload"
      [] b = 53 -> "saload"
      [] b = 79 -> "iastore"
      [] b = 80 -> "lastore"
      [] b = 81 -> "fastore"
      [] b = 82 -> "dastore"
      [] b = 83 -> "aastore"
      [] b = 84 -> "bastore"
      [] b = 85 -> "castore"
      [] b = 86 -> "sastore"
      [] b = 153 -> "ifeq"
      [] b = 167 -> "goto"
      [] b = 170 -> "tableswitch"
      [] b = 171 -> "lookupswitch"
      [] b = 198 -> "ifnull"
      [] b = 199 -> "ifnonnull"
      [] b = 255 -> "impdep2"

ArrayLoadOps ==
    {"iaload", "laload", "faload", "daload", "aaload", "baload", "caload", "saload"}
ArrayStoreOps ==
    {"iastore", "lastore", "fastore", "dastore", "aastore", "bastore", "castore",
     "sastore"}

\* the ArrayLoadStoreType the decoder gives an array opcode
ArrayTypeOf(opcode) ==
    CASE opcode \in {"iaload", "iastore"} -> "Int"
      [] opcode \in {"laload", "lastore"} -> "Long"
      [] opcode \in {"faload", "fastore"} -> "Float"
      [] opcode \in {"daload", "dastore"} -> "Double"
      [] opcode \in {"aaload", "aastore"} -> "Reference"
      [] opcode \in {"baload", "bastore"} -> "Byte"
      [] opcode \in {"caload", "castore"} -> "Char"
      [] opcode \in {"saload", "sastore"} -> "Short"

CodeBytes == {0, 1, 3, 16, 153, 167, 255}

CodeArrays ==
    [pad : Pads, tail : UNION {[1..n -> CodeBytes] : n \in 0..MaxTail}]

BytesLen(b) == b.pad + Len(b.tail)

ReadI8(b) == IF b >= 128 THEN b - 256 ELSE b
AsI16(n) == ((n + 32768) % 65536) - 32768
ReadI16Be(hi, lo) == AsI16(hi * 256 + lo)


DecodeError == [res |-> "error"]
DecodePanic == [res |-> "panic"]

\* The operand bytes of the opcode at offset `at` of the tail are all there.
HasOperands(tail, at, n) == at + n < Len(tail)

\* read_i32_be of the four bytes at offset p
ReadI32Be(tail, p) ==
    (IF tail[p + 1] >= 128 THEN tail[p + 1] - 256 ELSE tail[p + 1]) * 16777216
    + tail[p + 2] * 65536 + tail[p + 3] * 256 + tail[p + 4]

\* Align::align_to: the position moved up to the next multiple of align
AlignTo(pos, align) ==
    IF pos % align # 0 THEN pos + align - (pos % align) ELSE pos

\* the position after the three header words of a tableswitch whose opcode is
\* at offset `at`, and after the two of a lookupswitch (the code arrays that
\* hold a switch start at address 0 of the method)
TableHeaderEnd(at) == AlignTo(at + 1, 4) + 12
LookupHeaderEnd(at) == AlignTo(at + 1, 4) + 8

\* count = high - low + 1
TableCount(tail, at) ==
    ReadI32Be(tail, AlignTo(at + 1, 4) + 8) - ReadI32Be(tail, AlignTo(at + 1, 4) + 4) + 1

RECURSIVE DecodeLoop(_, _, _, _)
DecodeLoop(tail, at, instructions, address_map) ==
    IF at >= Len(tail)
    THEN [res |-> "ok", instructions |-> instructions, address_map |-> address_map]
    ELSE CASE OpCodeFromRepr(tail[at + 1]) = "nop" ->
                DecodeLoop(tail, at + 1, Append(instructions, Simple("nop")),
                           Append(address_map, at))
           [] OpCodeFromRepr(tail[at + 1]) = "aconst_null" ->
                DecodeLoop(tail, at + 1, Append(instructions, Simple("aconst_null")),
                           Append(address_map, at))
           [] OpCodeFromRepr(tail[at + 1]) = "iconst_0" ->
                DecodeLoop(tail, at + 1, Append(instructions, Const(0)),
                           Append(address_map, at))
           [] OpCodeFromRepr(tail[at + 1]) = "bipush" ->
                IF HasOperands(tail, at, 1)
                THEN DecodeLoop(tail, at + 2,
                                Append(instructions, Bipush(ReadI8(tail[at + 2]))),
                                Append(address_map, at))
                ELSE DecodeError
           [] OpCodeFromRepr(tail[at + 1]) = "ifeq" ->
                IF HasOperands(tail, at, 2)
                THEN DecodeLoop(tail, at + 3,
                                Append(instructions,
                                       If("Eq", ReadI16Be(tail[at + 2], tail[at + 3]))),
                                Append(address_map, at))
                ELSE DecodeError
           [] OpCodeFromRepr(tail[at + 1]) = "goto" ->
                IF HasOperands(tail, at, 2)
                THEN DecodeLoop(tail, at + 3,
                                Append(instructions,
                                       Goto(ReadI16Be(tail[at + 2], tail[at + 3]))),
                                Append(address_map, at))
                ELSE DecodeError
           [] OpCodeFromRepr(tail[at + 1]) = "sipush" ->
                IF HasOperands(tail, at, 2)
                THEN DecodeLoop(tail, at + 3,
                                Append(instructions,
                                       Sipush(ReadI16Be(tail[at + 2], tail[at + 3]))),
                                Append(address_map, at))
                ELSE DecodeError
           [] OpCodeFromRepr(tail[at + 1]) \in ArrayLoadOps ->
                DecodeLoop(tail, at + 1,
                           Append(instructions,
                                  Arraystore(ArrayTypeOf(OpCodeFromRepr(tail[at + 1])))),
                           Append(address_map, at))
           [] OpCodeFromRepr(tail[at + 1]) \in ArrayStoreOps ->
                DecodeLoop(tail, at + 1,
                           Append(instructions,
                                  Arraystore(ArrayTypeOf(OpCodeFromRepr(tail[at + 1])))),
                           Append(address_map, at))
           [] OpCodeFromRepr(tail[at + 1]) = "ifnull" ->
                IF HasOperands(tail, at, 2)
                THEN DecodeLoop(tail, at + 3,
                                Append(instructions,
                                       Ifnull(ReadI16Be(tail[at + 2], tail[at + 3]))),
                                Append(address_map, at))
                ELSE DecodeError
           [] OpCodeFromRepr(tail[at + 1]) = "ifnonnull" ->
                IF HasOperands(tail, at, 2)
                THEN DecodeLoop(tail, at + 3,
                                Append(instructions,
                                       Ifnonnull(ReadI16Be(tail[at + 2], tail[at + 3]))),
                                Append(address_map, at))
                ELSE DecodeError
           [] OpCodeFromRepr(tail[at + 1]) = "tableswitch" ->
                IF TableHeaderEnd(at) > Len(tail) THEN DecodeError
                ELSE IF TableCount(tail, at) < 0 THEN DecodePanic
                ELSE DecodeLoop(tail, TableHeaderEnd(at) + TableCount(tail, at) * 4,
                                Append(instructions, Simple("tableswitch")),
                                Append(address_map, at))
           [] OpCodeFromRepr(tail[at + 1]) = "lookupswitch" ->
                IF LookupHeaderEnd(at) > Len(tail) THEN DecodeError
                ELSE IF ReadI32Be(tail, LookupHeaderEnd(at) - 4) < 0 THEN DecodePanic
                ELSE DecodeLoop(tail,
                                LookupHeaderEnd(at)
                                    + ReadI32Be(tail, LookupHeaderEnd(at) - 4) * 8,
                                Append(instructions, Simple("lookupswitch")),
                                Append(address_map, at))
           [] OpCodeFromRepr(tail[at + 1]) = "impdep2" -> DecodeError

IsBranch(ins) == ins.op \in {"if", "goto", "ifnull", "ifnonnull"}

\* index_map: zero-filled, then the index of the instruction that starts at
\* each address; addresses inside an instruction keep the zero.
IndexMap(pad, address_map, address) ==
    IF address < pad
    THEN address
    ELSE IF \E j \in 1..Len(address_map) : address_map[j] = address - pad
         THEN pad + (CHOOSE j \in 1..Len(address_map) : address_map[j] = address - pad) - 1
         ELSE 0

\* address_map[i] + branch, the byte address a branch names.
BranchAddress(pad, address_map, j) == pad + address_map[j]

\* address_to_index!: the index offset, cast to the width of the branch.
AddressToIndex(pad, address_map, j, target, width) ==
    IF width = "i16"
    THEN AsI16(IndexMap(pad, address_map, target) - (pad + j - 1))
    ELSE IndexMap(pad, address_map, target) - (pad + j - 1)

BranchWidth(ins) == IF ins.op = "goto" THEN "i32" ELSE "i16"

\* checked_add_signed(..).unwrap() and the index into index_map both panic.
TargetPanics(len, target) == target < 0 \/ target >= len

Rewritten(pad, address_map, j, ins) ==
    IF IsBranch(ins)
    THEN [ins EXCEPT !.branch =
            AddressToIndex(pad, address_map, j,
                           BranchAddress(pad, address_map, j) + ins.branch,
                           BranchWidth(ins))]
    ELSE ins

RewriteBranches(b, d) ==
    IF d.res # "ok"
    THEN d
    ELSE IF \E j \in 1..Len(d.instructions) :
                /\ IsBranch(d.instructions[j])
                /\ TargetPanics(BytesLen(b),
                                BranchAddress(b.pad, d.address_map, j)
                                    + d.instructions[j].branch)
         THEN DecodePanic
         ELSE [res |-> "ok",
               pad |-> b.pad,
               instructions |->
                   [j \in 1..Len(d.instructions) |->
                       Rewritten(b.pad, d.address_map, j, d.instructions[j])]]

DecodeInstructions(b) == RewriteBranches(b, DecodeLoop(b.tail, 0, <<>>, <<>>))

\* instructions.len() and the index of instruction j of the decoded tail.
InstructionsLen(d) == d.pad + Len(d.instructions)
IndexOf(d, j) == d.pad + j - 1

Decode ==
    /\ decoded = NotDecoded
    /\ decoded' = DecodeInstructions(bytes)
    /\ UNCHANGED <<vmVars, bytes, readerVars>>

InitDecode ==
    /\ InitVm(0)
    /\ bytes \in CodeArrays
    /\ decoded = NotDecoded
    /\ ReaderIdle

NextDecode == Decode

SpecDecode == InitDecode /\ [][NextDecode]_vars

BranchInRange(d, j) ==
    /\ 0 <= IndexOf(d, j) + d.instructions[j].branch
    /\ IndexOf(d, j) + d.instructions[j].branch < InstructionsLen(d)

\* C10: for every method whose decoding succeeds, every branch instruction
\* at index i with rewritten offset b satisfies 0 <= i + b < instructions.len().
C10_BranchTargetsInRange ==
    decoded.res = "ok" =>
        \A j \in 1..Len(decoded.instructions) :
            IsBranch(decoded.instructions[j]) => BranchInRange(decoded, j)

\* The same statement for methods whose every instruction index fits the
\* 16-bit width of a conditional branch.
BranchTargetsInRangeShort ==
    (decoded.res = "ok" /\ InstructionsLen(decoded) <= I16Max) =>
        \A j \in 1..Len(decoded.instructions) :
            IsBranch(decoded.instructions[j]) => BranchInRange(decoded, j)

\* The instruction of the tail that starts at byte address `address`, as an
\* index into the decoded method (-1 if no instruction starts there).
StartIndex(pad, address_map, address) ==
    IF address >= 0 /\ address < pad
    THEN address
    ELSE IF \E j \in 1..Len(address_map) : pad + address_map[j] = address
    THEN pad + (CHOOSE j \in 1..Len(address_map) : pad + address_map[j] = address) - 1
    ELSE 0 - 1

\* Branch j of the decoded tail, against the instructions as they were read.
TargetPreserved(b, d, raw, j) ==
    /\ StartIndex(b.pad, raw.address_map,
                  b.pad + raw.address_map[j] + raw.instructions[j].branch) >= 0
    /\ d.instructions[j].branch =
         StartIndex(b.pad, raw.address_map,
                    b.pad + raw.address_map[j] + raw.instructions[j].branch)
         - IndexOf(d, j)

TargetsPreserved(b, d, raw) ==
    d.res = "ok" =>
        \A j \in 1..Len(d.instructions) :
            IsBranch(d.instructions[j]) => TargetPreserved(b, d, raw, j)

\* C11: branch rewriting preserves the jump target: the rewritten offset of
\* the branch at index i with byte offset o is index_of(address_of(i) + o) - i,
\* and address_of(i) + o is the start address of a decoded instruction; a
\* branch into the middle of an instruction never gets a valid-looking index.
C11_BranchTargetPreserved ==
    TargetsPreserved(bytes, decoded, DecodeLoop(bytes.tail, 0, <<>>, <<>>))

\* Among the branches whose byte target is the start of an instruction, in
\* methods whose indices fit the width of a conditional branch.
StartTargetsPreserved(b, d, raw) ==
    (d.res = "ok" /\ InstructionsLen(d) <= I16Max) =>
        \A j \in 1..Len(d.instructions) :
            (/\ IsBranch(d.instructions[j])
             /\ StartIndex(b.pad, raw.address_map,
                           b.pad + raw.address_map[j] + raw.instructions[j].branch) >= 0)
                => TargetPreserved(b, d, raw, j)

BranchToStartPreserved ==
    StartTargetsPreserved(bytes, decoded, DecodeLoop(bytes.tail, 0, <<>>, <<>>))

----------------------------------------------------------------------------
(***************************************************************************)
(* ClassReader::read_constant_pool (reader.rs) and ConstantPool::get       *)
(* (class_file.rs).  The file holds, after the count, `lead` one-slot      *)
(* entries, then the entries whose tags are `entries`, then `trail`        *)
(* one-slot entries; the value of an entry is its position in the file.    *)
(* The loop's iterations over a run of one-slot entries are one step.      *)
(***************************************************************************)
MaxPoolCount == 5   \* constant_pool_count of the short files
MaxEntries == 3     \* entries between the two runs

U16Max == 65535
WrapU16(n) == n % (U16Max + 1)

\* the tags read_constant_pool accepts
KnownTags == {1, 3, 4, 5, 6, 7, 8, 9, 10, 11, 12, 15, 16, 17, 18, 19, 20}

\* the tags the files use; 2 is no tag of a constant
StreamTags == {1, 2, 5, 6, 7}

ConstantName(tag) ==
    CASE tag = 1 -> "Utf8"
      [] tag = 5 -> "Long"
      [] tag = 6 -> "Double"
      [] tag = 7 -> "Class"

ConstantOf(tag, value) == [tag |-> ConstantName(tag), value |-> value]
Unused == [tag |-> "Unused"]
NoConstant == [tag |-> "None"]

IsWide(tag) == tag \in {5, 6}

Streams ==
    [count : (0..MaxPoolCount) \cup {U16Max},
     lead : {0, U16Max - 2},
     entries : UNION {[1..n -> StreamTags] : n \in 0..MaxEntries},
     trail : {0, U16Max}]

StreamLen(st) == st.lead + Len(st.entries) + st.trail

\* the tag of the entry at position p of the file
TagAt(st, p) ==
    IF p > st.lead /\ p <= st.lead + Len(st.entries)
    THEN st.entries[p - st.lead]
    ELSE 1

\* position p lies in one of the two runs
InRun(st, p) ==
    \/ p >= 1 /\ p <= st.lead
    \/ p > st.lead + Len(st.entries) /\ p <= StreamLen(st)

RunEnd(st, p) == IF p <= st.lead THEN st.lead ELSE StreamLen(st)

Min(a, b) == IF a <= b THEN a ELSE b

\* the Vec the loop pushes to: the constants of the runs are kept as counts
EmptyPool == [lead |-> 0, mid |-> <<>>, trail |-> 0]
PoolLen(pool) == pool.lead + Len(pool.mid) + pool.trail

\* self.0[position - 1]
PoolAt(st, pool, position) ==
    IF position <= pool.lead
    THEN ConstantOf(1, position)
    ELSE IF position <= pool.lead + Len(pool.mid)
    THEN pool.mid[position - pool.lead]
    ELSE ConstantOf(1, st.lead + Len(st.entries)
                          + (position - pool.lead - Len(pool.mid)))

\* ConstantPool::get
Get(st, pool, index) ==
    IF index < 1 \/ index > PoolLen(pool) THEN NoConstant
    ELSE PoolAt(st, pool, index)

\* constant_pool.push(constant) and the placeholder after a long or double
PushConstant(pool, tag, constant) ==
    IF IsWide(tag)
    THEN [pool EXCEPT !.mid = @ \o <<constant, Unused>>]
    ELSE [pool EXCEPT !.mid = Append(@, constant)]

PushRun(st, pool, p, m) ==
    IF p <= st.lead
    THEN [pool EXCEPT !.lead = @ + m]
    ELSE [pool EXCEPT !.trail = @ + m]

\* the iterations of the loop over the one-slot entries of a run
ReadRunOf(m) ==
    reader' = [reader EXCEPT
                  !.i = @ + m,
                  !.pos = @ + m,
                  !.pool = PushRun(stream, @, reader.pos + 1, m),
                  !.reads = Append(@, [pos |-> reader.pos + 1, slot |-> reader.i,
                                       n |-> m])]

ReadRun ==
    /\ reader.res = "reading"
    /\ reader.i < stream.count
    /\ InRun(stream, reader.pos + 1)
    /\ ReadRunOf(Min(RunEnd(stream, reader.pos + 1) - reader.pos,
                     stream.count - reader.i))
    /\ UNCHANGED <<vmVars, decoderVars, stream>>

\* i += 2 or i += 1 on a u16: a build with overflow checks panics
Advanced(r, by, overflow_checks) ==
    IF r.i + by <= U16Max THEN [r EXCEPT !.i = @ + by]
    ELSE IF overflow_checks THEN [r EXCEPT !.res = "panic"]
    ELSE [r EXCEPT !.i = WrapU16(@ + by)]

ReadConstantOf(tag, overflow_checks) ==
    IF reader.pos >= StreamLen(stream) \/ tag \notin KnownTags
    THEN reader' = [reader EXCEPT !.res = "error"]
    ELSE reader' =
           Advanced([reader EXCEPT
                        !.pos = @ + 1,
                        !.pool = PushConstant(@, tag,
                                              ConstantOf(tag, reader.pos + 1)),
                        !.reads = Append(@, [pos |-> reader.pos + 1,
                                             slot |-> reader.i, n |-> 1])],
                    IF IsWide(tag) THEN 2 ELSE 1, overflow_checks)

\* one iteration of the loop
ReadConstant ==
    /\ reader.res = "reading"
    /\ reader.i < stream.count
    /\ ~InRun(stream, reader.pos + 1)
    /\ \E overflow_checks \in BOOLEAN :
           ReadConstantOf(TagAt(stream, reader.pos + 1), overflow_checks)
    /\ UNCHANGED <<vmVars, decoderVars, stream>>

\* the loop's exit: Ok(ConstantPool(constant_pool))
ReadDone ==
    /\ reader.res = "reading"
    /\ reader.i >= stream.count
    /\ reader' = [reader EXCEPT !.res = "ok"]
    /\ UNCHANGED <<vmVars, decoderVars, stream>>

InitPool ==
    /\ InitVm(0)
    /\ DecoderIdle
    /\ stream \in Streams
    /\ reader = [res |-> "reading", i |-> 1, pos |-> 0, pool |-> EmptyPool,
                 reads |-> <<>>]

NextPool == ReadRun \/ ReadConstant \/ ReadDone

SpecPool == InitPool /\ [][NextPool]_vars

\* entry o of read s: it is found at its slot, and a long or double has the
\* placeholder after it
EntryFound(st, r, s, o) ==
    /\ Get(st, r.pool, r.reads[s].slot + o)
         = ConstantOf(TagAt(st, r.reads[s].pos + o), r.reads[s].pos + o)
    /\ IsWide(TagAt(st, r.reads[s].pos + o)) =>
         /\ Get(st, r.pool, r.reads[s].slot + o + 1) = Unused
         /\ s < Len(r.reads) => r.reads[s + 1].slot = r.reads[s].slot + 2

\* C12: after reading a constant pool, every entry that was read as the k-th
\* slot is returned by lookup of index k, each long/double entry at index k is
\* followed by a placeholder at k+1, and the entry after it is found at k+2.
C12_PoolLayout ==
    reader.res = "ok" =>
        \A s \in 1..Len(reader.reads) :
            \A o \in 0..(reader.reads[s].n - 1) :
                EntryFound(stream, reader, s, o)

\* The same for the files whose slots stay below the width of the counter.
PoolLayoutShort ==
    (reader.res = "ok" /\ PoolLen(reader.pool) < U16Max) =>
        \A s \in 1..Len(reader.reads) :
            \A o \in 0..(reader.reads[s].n - 1) :
                EntryFound(stream, reader, s, o)

----------------------------------------------------------------------------
(* Failures: instructions that fail, in the entry method and in callees *)

MaxCodeFail == 3
MaxStackFail == 2

InitFail == InitVm(MaxCodeFail) /\ UnitsIdle

NextFail ==
    \/ HostLoadClassFile({"Main", "L"})
    \/ HostExecute
    \/ StackBelow(MaxStackFail) /\ ExecBipush({0, 7})
    \/ ExecPutstatic({2})
    \/ ExecRem
    \/ ExecInvoke({"Static"}, {16, 22})
    \/ ExecInvoke({"Interface", "Dynamic"}, {17, 24, 25})
    \/ ExecUnimplemented({"athrow", "jsr", "tableswitch", "monitorenter"})
    \/ ExecReturn({"Void", "Reference"})
    \/ ExecPastEnd

SpecFail == InitFail /\ [][NextFail]_vars

\* the ways an execution stops other than by returning from the entry method
Stopped == {"error", "panic", "abort"}

\* C13: every failure during method execution ends call_method by returning
\* an error value to its caller; execution never aborts the host by a panic.
C13_FailuresAreErrors ==
    last.ins.op \notin {"none", "load_class_file", "execute"} =>
        last.res \notin {"panic", "abort"}


IsPrefix(s, t) == Len(s) <= Len(t) /\ SubSeq(t, 1, Len(s)) = s

\* C14: when an instruction fails in any frame, no further instruction is
\* executed in that frame or in its callers, no further bytes are written to
\* stdout (the earlier ones remain), and the top-level call returns that error.
C14_FirstErrorAborts ==
    [][/\ (status = "running" /\ status' \in Stopped) =>
              /\ status' = "error"
              /\ frames' = <<>>
              /\ IsPrefix(stdout, stdout')
       /\ status \in Stopped => UNCHANGED <<frames, stdout, status>>]_vars

\* whatever the way an instruction fails, every frame is abandoned at once
\* and nothing runs or is written afterwards
FailureStopsExecution ==
    [][/\ (status = "running" /\ status' \in Stopped) =>
              frames' = <<>> /\ IsPrefix(stdout, stdout')
       /\ status \in Stopped => UNCHANGED <<frames, stdout, status>>]_vars

\* C15: a method with the SYNCHRONIZED flag is never executed: entered as
\* <clinit>, from the host or by an invoke it fails before any effect, and
\* monitorenter and monitorexit fail when reached.
C15_SynchronizedNeverRuns ==
    /\ clinitRuns["L"] = 0
    /\ \A i \in 1..Len(console) : console[i] # "L"
    /\ \A i \in 1..Len(frames) :
          "SYNCHRONIZED" \notin MethodOf(frames[i]).access_flags
    /\ last.ins.op \in {"monitorenter", "monitorexit"} => last.res \in Stopped

\* a SYNCHRONIZED method reached by an invoke instruction fails before any
\* of its instructions takes effect
SynchronizedInvokeFails ==
    /\ \A i \in 1..Len(frames) :
          "SYNCHRONIZED" \notin MethodOf(frames[i]).access_flags
    /\ last.ins = Invoke("Static", 22) =>
          /\ last.res = "panic"
          /\ frames = <<>>
    /\ last.ins.op \in {"monitorenter", "monitorexit"} => last.res \in Stopped

\* the instructions and invoke kinds of C16
Escapes(ins) ==
    \/ ins.op \in {"athrow", "jsr", "ret", "tableswitch", "lookupswitch"}
    \/ ins.op = "invoke" /\ ins.kind \in {"Interface", "Dynamic"}

----------------------------------------------------------------------------
(* Arithmetic: add and rem on the operand stack *)

MaxCodeArith == 3
MaxStackArith == 2

InitArith == InitVm(MaxCodeArith) /\ UnitsIdle

NextArith ==
    \/ HostLoadClassFile({"Main"})
    \/ HostExecute
    \/ StackBelow(MaxStackArith) /\ ExecBipush({0 - 7, 0 - 1, 0, 1, 3})
    \/ StackBelow(MaxStackArith) /\ ExecDup
    \/ StackBelow(MaxStackArith) /\ ExecInvoke({"Static"}, {27})
    \/ ExecAdd
    \/ ExecRem
    \/ ExecReturn({"Int"})
    \/ ExecPastEnd

SpecArith == InitArith /\ [][NextArith]_vars

\* the operands of the last binary instruction: b on top, a below it
OperandB == last.before.operand_stack[Len(last.before.operand_stack)]
OperandA == last.before.operand_stack[Len(last.before.operand_stack) - 1]

\* the last instruction was `op` on two ints
BinaryOnInts(op) ==
    /\ last.ins.op = op
    /\ last.ins.data_type = "Int"
    /\ Len(last.before.operand_stack) >= 2
    /\ OperandA.t = "Int"
    /\ OperandB.t = "Int"

\* the stack the last instruction left in its frame
StackAfter == frames[last.depth].operand_stack

\* (a + b) mod 2^32 as a signed value, added in 16-bit halves
SumMod32(a, b) ==
    (AsI16((a \div 65536) + (b \div 65536)
           + (((a % 65536) + (b % 65536)) \div 65536)) * 65536)
    + (((a % 65536) + (b % 65536)) % 65536)

\* C17: iadd pushes (a + b) mod 2^32 interpreted as signed and execution
\* continues; iadd(INT_MAX, 1) pushes INT_MIN.
C17_AddWraps ==
    BinaryOnInts("add") =>
        /\ last.res = "next"
        /\ Len(frames) = last.depth
        /\ StackAfter = Append(SubSeq(last.before.operand_stack, 1,
                                      Len(last.before.operand_stack) - 2),
                               IntV(SumMod32(OperandA.i, OperandB.i)))

\* iadd pushes the wrapped sum, or stops the run when the sum leaves the
\* range of an int; a sum inside the range is always pushed
AddWrapsOrStops ==
    BinaryOnInts("add") =>
        \/ /\ last.res = "next"
           /\ Len(frames) = last.depth
           /\ StackAfter = Append(SubSeq(last.before.operand_stack, 1,
                                         Len(last.before.operand_stack) - 2),
                                  IntV(SumMod32(OperandA.i, OperandB.i)))
        \/ /\ last.res = "panic"
           /\ frames = <<>>
           /\ \/ OperandA.i > 0 /\ OperandB.i > IntMax - OperandA.i
              \/ OperandA.i < 0 /\ OperandB.i < IntMin - OperandA.i

\* iadd(INT_MAX, 1) was executed
AddAtIntMax ==
    BinaryOnInts("add") /\ OperandA.i = IntMax /\ OperandB.i = 1


\* a rem b of the Java language: the magnitude is |a| mod |b|, the sign is
\* the dividend's
JavaRem(a, b) ==
    IF b = IntMin THEN (IF a = IntMin THEN 0 ELSE a)
    ELSE IF a >= 0 \/ a % (IF b > 0 THEN b ELSE 0 - b) = 0
    THEN a % (IF b > 0 THEN b ELSE 0 - b)
    ELSE (a % (IF b > 0 THEN b ELSE 0 - b)) - (IF b > 0 THEN b ELSE 0 - b)

----------------------------------------------------------------------------
(* Method resolution: method-refs through a class that inherits the method *)

MaxCodeResolve == 3

InitResolve == InitVm(MaxCodeResolve) /\ UnitsIdle

NextResolve ==
    \/ HostLoadClassFile({"Main"})
    \/ HostExecute
    \/ ExecNew({7})
    \/ ExecBipush({1})
    \/ ExecInvoke({"Static", "Special", "Virtual"}, {17, 20, 21})
    \/ ExecReturn({"Int", "Void"})
    \/ ExecPastEnd

SpecResolve == InitResolve /\ [][NextResolve]_vars

\* the class the method-ref of the last invoke resolves in, "" if none
LastDeclarer ==
    Declarer(RefOwner(last.before, last.ins), RefOf(last.before, last.ins).name,
             RefOf(last.before, last.ins).descriptor)

\* C19: a method-ref (class, name, descriptor) resolves to the method of the
\* nearest class on the super chain from the referenced class that declares
\* (name, descriptor); if none does, the invoke fails with an error and no
\* frame is created.
C19_MethodResolution ==
    last.ins.op = "invoke" =>
        IF LastDeclarer = ""
        THEN /\ last.res = "error"
             /\ status = "error"
             /\ frames = <<>>
        ELSE last.ins.kind \in {"Static", "Special"} =>
             /\ last.res \in {"call", "panic"}
             /\ last.res = "call" =>
                   /\ Len(frames) = last.depth + 1
                   /\ Top.mclass = LastDeclarer
                   /\ Top.mindex = MethodIndex(ClassFiles(LastDeclarer),
                                               RefOf(last.before, last.ins).name,
                                               RefOf(last.before, last.ins).descriptor)

\* invokespecial through the method-ref H.sound()I, which H inherits from A,
\* has entered A.sound()I
C19_Witness ==
    /\ last.ins = Invoke("Special", 20)
    /\ last.res = "call"
    /\ RefOwner(last.before, last.ins) = "H"
    /\ Top.mclass = "A"
    /\ MethodOf(Top).name = "sound"

\* an invoke through the method-ref A.missing()V, which no class declares,
\* has failed
ResolutionFailed ==
    /\ last.ins = Invoke("Static", 21)
    /\ last.res = "error"
    /\ frames = <<>>

----------------------------------------------------------------------------
(* Claims about the fields of a linked class, under SpecLoad *)

\* the (name, descriptor) keys a class file declares, static or instance
DeclaredKeys(name, static) ==
    {<<ClassFiles(name).fields[i].name, ClassFiles(name).fields[i].descriptor>> :
        i \in {j \in 1..Len(ClassFiles(name).fields) :
                  ClassFiles(name).fields[j].static = static}}

\* the ordinals and Field records the super class of the linked class c hands on
InheritedOrdinals(c) ==
    IF classes[c].super_class = 0 THEN {}
    ELSE DOMAIN classes[classes[c].super_class].field_ordinals
InheritedFields(c) ==
    IF classes[c].super_class = 0 THEN <<>>
    ELSE classes[classes[c].super_class].fields

\* the default of the Java language for a field of descriptor d
IsTypeDefault(v, d) ==
    CASE d = "Z" -> v = BoolV(FALSE)
      [] d \in {"B", "C", "S", "I", "J", "F", "D"} ->
            /\ v.t = FieldTypeOf(d)
            /\ v \in {ByteV(0), [t |-> "Char", c |-> 0], [t |-> "Short", h |-> 0],
                      IntV(0), LongV(0), [t |-> "Float", f |-> 0],
                      [t |-> "Double", d |-> 0]}
      [] OTHER -> v = RefV(0)

----------------------------------------------------------------------------
(* Printing: the native print and the stdout sink *)

MaxCodePrint == 4
MaxStackPrint == 2

InitPrint == InitVm(MaxCodePrint) /\ UnitsIdle

NextPrint ==
    \/ HostLoadClassFile({"Main"})
    \/ HostExecute
    \/ StackBelow(MaxStackPrint) /\ ExecBipush({0 - 3, 2, 12})
    \/ StackBelow(MaxStackPrint) /\ ExecAconstNull
    \/ StackBelow(MaxStackPrint) /\ ExecLdc({29})
    \/ StackBelow(MaxStackPrint) /\ ExecNew({5, 28})
    \/ ExecNewarray({"Int"})
    \/ ExecInvoke({"Static"}, {16})
    \/ ExecPastEnd

SpecPrint == InitPrint /\ [][NextPrint]_vars

\* the pieces joined with ", "
RECURSIVE Joined(_, _)
Joined(pieces, i) ==
    IF i > Len(pieces) THEN <<>>
    ELSE (IF i > 1 THEN <<",", " ">> ELSE <<>>) \o pieces[i]
         \o Joined(pieces, i + 1)

\* the rendering contract: the value has a rendering (depth bounds the
\* objects entered)
RECURSIVE HasRendering(_, _)
HasRendering(v, depth) ==
    CASE v.t \in {"StringConst", "Byte", "Int", "Long"} -> TRUE
      [] v.t = "Reference" ->
            IF v.r \notin 1..Len(heap) THEN TRUE
            ELSE IF heap[v.r].kind = "Array" THEN heap[v.r].atype = "Int"
            ELSE /\ depth > 0
                 /\ \A i \in 1..Len(heap[v.r].data) :
                       HasRendering(heap[v.r].data[i], depth - 1)
      [] OTHER -> FALSE

\* the rendering contract: decimal numbers, raw strings, [e0, e1], null and
\* ClassName {field: value, field: value}
RECURSIVE Rendering(_)
Rendering(v) ==
    CASE v.t = "StringConst" -> v.s
      [] v.t = "Byte" -> Digits(v.y)
      [] v.t = "Int" -> Digits(v.i)
      [] v.t = "Long" -> Digits(v.l)
      [] v.t = "Reference" ->
            IF v.r \notin 1..Len(heap) THEN <<"n", "u", "l", "l">>
            ELSE IF heap[v.r].kind = "Array"
            THEN <<"[">>
                 \o Joined([i \in 1..Len(heap[v.r].data) |->
                               Digits(heap[v.r].data[i])], 1)
                 \o <<"]">>
            ELSE Chars(classes[heap[v.r].class].name) \o <<" ", "{">>
                 \o Joined([i \in 1..Len(heap[v.r].data) |->
                               Chars(classes[heap[v.r].class].fields[i].name)
                               \o <<":", " ">>
                               \o Rendering(heap[v.r].data[i])], 1)
                 \o <<"}">>

\* the instruction about to be recorded is a print with an operand to take
PrintExecuted ==
    /\ status = "running"
    /\ last'.ins.op = "invoke"
    /\ last'.ins.kind = "Static"
    /\ RefOf(Top, last'.ins).tag = "MethodRef"
    /\ RefOf(Top, last'.ins).name = "print"
    /\ Top.operand_stack # <<>>

\* the print took exactly one operand and execution went on
TookOneOperand ==
    /\ last'.res = "next"
    /\ Len(frames') = Len(frames)
    /\ frames'[Len(frames)].operand_stack = Front(Top.operand_stack)

\* C21: the stdout sink holds exactly the concatenation, in execution order,
\* of the renderings of the argument of each executed print, with no
\* separator and no trailing newline; each print consumes exactly one operand.
C21_StdoutIsPrints ==
    [][IF PrintExecuted
       THEN IF HasRendering(Last(Top.operand_stack), Len(heap))
            THEN /\ stdout' = stdout \o Rendering(Last(Top.operand_stack))
                 /\ TookOneOperand
            ELSE stdout' = stdout
       ELSE stdout' = stdout]_vars

\* a print whose argument has a rendering appends exactly that rendering and
\* takes one operand; no other instruction writes to the sink
RenderedPrintsAppend ==
    [][IF PrintExecuted
       THEN IF HasRendering(Last(Top.operand_stack), Len(heap))
            THEN /\ stdout' = stdout \o Rendering(Last(Top.operand_stack))
                 /\ TookOneOperand
            ELSE IsPrefix(stdout, stdout') /\ last'.res \in Stopped
       ELSE stdout' = stdout]_vars

\* two prints ran: 12, then the string hi
TwoPrints ==
    /\ stdout = <<"1", "2", "h", "i">>
    /\ last.ins = Invoke("Static", 16)

----------------------------------------------------------------------------
(* Claims about the order of initialisation, under SpecCall *)

----------------------------------------------------------------------------
(* Mutual references: two classes whose initialisers name each other *)

MaxCodeMutual == 3
MaxStackMutual == 3

InitMutual == InitVm(MaxCodeMutual) /\ UnitsIdle

NextMutual ==
    \/ HostLoadClassFile({"Main", "Ping", "Pong"})
    \/ HostExecute
    \/ StackBelow(MaxStackMutual) /\ ExecNew({5, 6, 30, 31})
    \/ StackBelow(MaxStackMutual) /\ ExecBipush({0, 1, 2})
    \/ StackBelow(MaxStackMutual) /\ ExecAconstNull
    \/ ExecPastEnd

SpecMutual == InitMutual /\ [][NextMutual]_vars

Mutual == {"Ping", "Pong"}

\* the step just taken asked for a load of one of the two classes
LoadOfMutual ==
    \/ last.ins.op = "load_class_file" /\ last.ins.name \in Mutual
    \/ /\ last.ins.op = "new"
       /\ last.ins.index \in 1..Len(FileMain.constant_pool)
       /\ FileMain.constant_pool[last.ins.index].tag = "Class"
       /\ FileMain.constant_pool[last.ins.index].name \in Mutual

\* C23: loading terminates under mutual lazy references: a load of a class
\* whose <clinit> references a second class, whose <clinit> references the
\* first, completes after finitely many loads and <clinit> runs.
C23_MutualLoadCompletes ==
    LoadOfMutual => /\ last.res \in {"ok", "next"}
                    /\ status \in {"idle", "running"}

----------------------------------------------------------------------------
(* invokespecial: a receiver, its arguments, and the frames of a call *)

MaxCodeSpecial == 4
MaxStackSpecial == 3

InitSpecial == InitVm(MaxCodeSpecial) /\ UnitsIdle

NextSpecial ==
    \/ HostLoadClassFile({"Main"})
    \/ HostExecute
    \/ StackBelow(MaxStackSpecial) /\ ExecBipush({5, 7})
    \/ StackBelow(MaxStackSpecial) /\ ExecNew({5, 6})
    \/ ExecLoad({"Int"}, {1})
    \/ ExecInvoke({"Special"}, {13, 32, 33, 34})
    \/ ExecReturn({"Int", "Void"})
    \/ ExecPastEnd

SpecSpecial == InitSpecial /\ [][NextSpecial]_vars

\* the instruction the caller of the frame that just returned stands at
CallerInvoke == Code(last.under)[last.under.pc + 1]

\* the step just taken entered a method by invokespecial
SpecialEntered ==
    /\ last.ins.op = "invoke"
    /\ last.ins.kind = "Special"
    /\ last.res = "call"

\* the step just taken returned from a method entered by invokespecial
SpecialReturned ==
    /\ last.ins.op = "return"
    /\ last.res = "return"
    /\ last.depth >= 2
    /\ status = "running"
    /\ CallerInvoke.op = "invoke"
    /\ CallerInvoke.kind = "Special"

\* the caller's stack below the receiver of the call that just returned
BelowReceiver ==
    SubSeq(last.under.operand_stack, 1,
           Len(last.under.operand_stack) - (Len(MethodOf(last.before).params) + 1))

\* C24: invokespecial executes exactly the method found by resolution, even
\* when the receiver's runtime class declares an override; the receiver is
\* callee local 0 and argument i is callee local i; after the return the
\* caller's stack is its content below the receiver followed by the return
\* value if any.
C24_SpecialCall ==
    /\ SpecialEntered =>
          LET ref == RefOf(last.before, last.ins)
              k == Len(MethodOf(Top).params)
              st == last.before.operand_stack
          IN /\ Len(frames) = last.depth + 1
             /\ Top.mclass = LastDeclarer
             /\ MethodOf(Top).name = ref.name
             /\ MethodOf(Top).descriptor = ref.descriptor
             /\ Top.pc = 0
             /\ Top.operand_stack = <<>>
             /\ Top.locals[1] = st[Len(st) - k]
             /\ \A i \in 1..k : Top.locals[i + 1] = st[Len(st) - k + i]
    /\ SpecialReturned =>
          /\ Len(frames) = last.depth - 1
          /\ Top.operand_stack =
                IF last.ins.data_type = "Void" THEN BelowReceiver
                ELSE Append(BelowReceiver, Last(last.before.operand_stack))

\* A.pick(I)I, entered by invokespecial on an S (which overrides pick) with
\* the argument 5 over one more operand, has returned 5 onto that operand
C24_Witness ==
    /\ SpecialReturned
    /\ CallerInvoke.index = 32
    /\ last.before.mclass = "A"
    /\ last.before.locals[1].t = "Reference"
    /\ last.before.locals[1].r \in 1..Len(heap)
    /\ classes[heap[last.before.locals[1].r].class].name = "S"
    /\ last.before.locals[2] = IntV(5)
    /\ Top.operand_stack = <<IntV(7), IntV(5)>>


\* the caller's operands that are not arguments of the call in progress
KeptBelow(caller, callee) ==
    SubSeq(caller.operand_stack, 1, Len(caller.operand_stack) - callee.nargs)

\* what a step of the running callee leaves of the frame that called it
CallerUntouched ==
    LET c == Len(frames) - 1 IN
    IF Len(frames') >= Len(frames) THEN frames'[c] = frames[c]
    ELSE IF Len(frames') = c
    THEN /\ frames'[c].locals = frames[c].locals
         /\ frames'[c].pc = frames[c].pc + 1
         /\ Len(frames'[c].operand_stack) >= Len(KeptBelow(frames[c], Top))
         /\ SubSeq(frames'[c].operand_stack, 1, Len(KeptBelow(frames[c], Top)))
               = KeptBelow(frames[c], Top)
    ELSE frames' = <<>> /\ status' \in Stopped

\* C25: calls are synchronous and frames are isolated: between an invoke and
\* the callee's return the caller executes no instruction, and the callee
\* changes neither the caller's locals nor the caller's operands below the
\* call's arguments.
C25_FramesIsolated ==
    [][(status = "running" /\ Len(frames) >= 2) =>
          /\ CallerUntouched
          /\ \A i \in 1..(Len(frames) - 2) :
                i <= Len(frames') => frames'[i] = frames[i]]_vars

\* A.pick(I)I has run `iload 1` while its caller holds an operand under the
\* receiver and stands at the invokespecial
C25_Witness ==
    /\ status = "running"
    /\ Len(frames) = 2
    /\ last.depth = 2
    /\ last.ins.op = "load"
    /\ Top.operand_stack = <<IntV(5)>>
    /\ Len(frames[1].operand_stack) = 3
    /\ frames[1].operand_stack[1] = IntV(7)
    /\ Code(frames[1])[frames[1].pc + 1].op = "invoke"

----------------------------------------------------------------------------
(* Branches: the program counter from one instruction to the next *)

MaxCodeBranch == 4
MaxStackBranch == 2

InitBranch == InitVm(MaxCodeBranch) /\ UnitsIdle

NextBranch ==
    \/ HostLoadClassFile({"Main"})
    \/ HostExecute
    \/ StackBelow(MaxStackBranch) /\ ExecBipush({0 - 1, 0, 1})
    \/ ExecIf({0 - 2, 2}, Bipush(0))
    \/ ExecIfIcmp({0 - 2, 2}, Bipush(0))
    \/ ExecGoto({0 - 2, 2}, Bipush(0))
    \/ ExecReturn({"Void"})
    \/ ExecPastEnd

SpecBranch == InitBranch /\ [][NextBranch]_vars

\* the operand stack the instruction just executed started from
StackBefore == last.before.operand_stack

\* whether the instruction just executed is a branch whose condition held
BranchTaken ==
    CASE last.ins.op = "goto" -> TRUE
      [] last.ins.op = "if" ->
            \/ last.ins.condition = "Eq" /\ Last(StackBefore).i = 0
            \/ last.ins.condition = "Ne" /\ Last(StackBefore).i # 0
            \/ last.ins.condition = "Lt" /\ Last(StackBefore).i < 0
            \/ last.ins.condition = "Le" /\ Last(StackBefore).i <= 0
            \/ last.ins.condition = "Gt" /\ Last(StackBefore).i > 0
            \/ last.ins.condition = "Ge" /\ Last(StackBefore).i >= 0
      [] last.ins.op = "if_icmp" ->
            LET v1 == StackBefore[Len(StackBefore) - 1].i
                v2 == StackBefore[Len(StackBefore)].i
            IN \/ last.ins.condition = "Eq" /\ v1 = v2
               \/ last.ins.condition = "Ne" /\ v1 # v2
               \/ last.ins.condition = "Lt" /\ v1 < v2
               \/ last.ins.condition = "Le" /\ v1 <= v2
               \/ last.ins.condition = "Gt" /\ v1 > v2
               \/ last.ins.condition = "Ge" /\ v1 >= v2
      [] OTHER -> FALSE

\* an instruction of the running frame completed and the frame goes on
Continued ==
    /\ status = "running"
    /\ last.res = "next"
    /\ Len(frames) = last.depth

\* C26: within a frame, after a non-returning instruction at pc the next one
\* executed is at pc + 1, unless the instruction is a goto, or an if or
\* if_icmp whose condition holds (v1 cond v2, v2 popped first), which make
\* it pc + branch.
C26_NextInstruction ==
    Continued =>
        Top.pc = last.before.pc + (IF BranchTaken THEN last.ins.branch ELSE 1)

\* `bipush 0; bipush 1; if_icmplt 2` has skipped an instruction: 0 < 1 holds,
\* and 1 < 0, the comparison the other way round, does not
C26_Witness ==
    /\ Continued
    /\ last.ins = IfIcmp("Lt", 2)
    /\ StackBefore = <<IntV(0), IntV(1)>>
    /\ Top.pc = last.before.pc + 2


\* the code array of the frame the last instruction ran in
CodeBefore == Code(last.before)

\* the step just taken found the program counter outside the code array
LeftRange ==
    \/ /\ last.ins = Simple("none")
       /\ last.res = "panic"
       /\ last.before.pc >= Len(CodeBefore)
    \/ /\ last.res = "next"
       /\ last.ins.op \in {"if", "if_icmp", "goto"}
       /\ last.before.pc + (IF BranchTaken THEN last.ins.branch ELSE 1) < 0

\* C27: no instruction is fetched outside [0, instructions.len()): when the
\* next program counter would leave the range, by a branch or by running past
\* the last instruction without a return, execution fails with a
\* program-counter-overflow error.
C27_PcLeavesRangeWithError ==
    /\ last.depth >= 1 /\ last.ins # Simple("none")
          => last.before.pc \in 0..(Len(CodeBefore) - 1)
    /\ LeftRange => status = "error" /\ frames = <<>>

\* the part that holds: a branch below zero is the error, and nothing is
\* executed from outside the code array
BranchBelowZeroIsError ==
    /\ last.depth >= 1 /\ last.ins # Simple("none")
          => last.before.pc \in 0..(Len(CodeBefore) - 1)
    /\ (LeftRange /\ last.res = "next") => status = "error" /\ frames = <<>>

BranchedBelowZero == LeftRange /\ last.res = "next" /\ status = "error"

----------------------------------------------------------------------------
(* Decoding of the array, short-constant and null-test opcodes *)

MaxOps == 3

OpBytes == {0, 17, 198, 199} \cup (46..53) \cup (79..86)

OpArrays == [pad : {0}, tail : UNION {[1..n -> OpBytes] : n \in 0..MaxOps}]

InitDecodeOps ==
    /\ InitVm(0)
    /\ bytes \in OpArrays
    /\ decoded = NotDecoded
    /\ ReaderIdle

NextDecodeOps == Decode

SpecDecodeOps == InitDecodeOps /\ [][NextDecodeOps]_vars

\* the byte addresses at which the instructions of the tail start
StartsOf(b) == DecodeLoop(b.tail, 0, <<>>, <<>>).address_map

\* the opcode instruction j of the decoded tail was read from
OpcodeOf(b, j) == OpCodeFromRepr(b.tail[StartsOf(b)[j] + 1])

\* the signed 16-bit operand of the instruction j of the tail
OperandOf(b, j) ==
    LET hi == b.tail[StartsOf(b)[j] + 2]
        lo == b.tail[StartsOf(b)[j] + 3]
    IN IF hi * 256 + lo >= 32768 THEN hi * 256 + lo - 65536 ELSE hi * 256 + lo

\* C28: the decoder maps each array-load opcode (iaload ... saload) to
\* arrayload of its element type and each array-store opcode to arraystore of
\* its element type; no array-load opcode decodes to an array-store
\* instruction.
C28_ArrayOpcodes ==
    decoded.res = "ok" =>
        \A j \in 1..Len(decoded.instructions) :
            /\ OpcodeOf(bytes, j) \in ArrayLoadOps =>
                  /\ decoded.instructions[j].op = "arrayload"
                  /\ decoded.instructions[j].op # "arraystore"
                  /\ decoded.instructions[j].data_type = ArrayTypeOf(OpcodeOf(bytes, j))
            /\ OpcodeOf(bytes, j) \in ArrayStoreOps =>
                  /\ decoded.instructions[j].op = "arraystore"
                  /\ decoded.instructions[j].data_type = ArrayTypeOf(OpcodeOf(bytes, j))

\* the part that holds: every array opcode keeps its element type, and the
\* array-store opcodes decode to arraystore
ArrayOpcodesKeepType ==
    decoded.res = "ok" =>
        \A j \in 1..Len(decoded.instructions) :
            /\ OpcodeOf(bytes, j) \in ArrayLoadOps \cup ArrayStoreOps =>
                  decoded.instructions[j].data_type = ArrayTypeOf(OpcodeOf(bytes, j))
            /\ OpcodeOf(bytes, j) \in ArrayStoreOps =>
                  decoded.instructions[j].op = "arraystore"

\* iaload and iastore, side by side, decoded to the same instruction
LoadDecodedAsStore ==
    /\ decoded.res = "ok"
    /\ bytes.tail = <<46, 79>>
    /\ decoded.instructions[1] = decoded.instructions[2]

\* C29: the decoder maps ifnonnull to an ifnonnull instruction and ifnull to
\* an ifnull instruction, each with its branch offset rewritten; the two
\* never decode to the same instruction.
C29_NullBranches ==
    decoded.res = "ok" =>
        \A j \in 1..Len(decoded.instructions) :
            /\ OpcodeOf(bytes, j) = "ifnull" =>
                  decoded.instructions[j].op = "ifnull"
            /\ OpcodeOf(bytes, j) = "ifnonnull" =>
                  decoded.instructions[j].op = "ifnonnull"
            /\ OpcodeOf(bytes, j) \in {"ifnull", "ifnonnull"} =>
                  decoded.instructions[j].branch =
                      StartIndex(bytes.pad, StartsOf(bytes),
                                 bytes.pad + StartsOf(bytes)[j] + OperandOf(bytes, j))
                      - IndexOf(decoded, j)

\* the part that holds: both opcodes give a branch to the instruction their
\* operand names, and ifnull gives an ifnull instruction
NullBranchesRewritten ==
    decoded.res = "ok" =>
        \A j \in 1..Len(decoded.instructions) :
            /\ OpcodeOf(bytes, j) = "ifnull" =>
                  decoded.instructions[j].op = "ifnull"
            /\ OpcodeOf(bytes, j) \in {"ifnull", "ifnonnull"} =>
                  decoded.instructions[j].branch =
                      StartIndex(bytes.pad, StartsOf(bytes),
                                 bytes.pad + StartsOf(bytes)[j] + OperandOf(bytes, j))
                      - IndexOf(decoded, j)

\* `ifnonnull 0` decoded to the instruction `ifnull 0` decodes to
NonnullDecodedAsNull ==
    /\ decoded.res = "ok"
    /\ bytes.tail = <<199, 0, 0>>
    /\ decoded.instructions = <<[op |-> "ifnull", branch |-> 0]>>

----------------------------------------------------------------------------
(* Constants pushed from the code: bipush and sipush *)

MaxCodePush == 3

I8Min == 0 - 128
I8Max == 127
I16Min == 0 - 32768

InitPush == InitVm(MaxCodePush) /\ UnitsIdle

NextPush ==
    \/ HostLoadClassFile({"Main"})
    \/ HostExecute
    \/ ExecBipush({I8Min, 0 - 1, 0, 1, I8Max})
    \/ ExecSipush({I16Min, I8Min - 1, I8Max + 1, I16Max})
    \/ ExecReturn({"Void"})
    \/ ExecPastEnd

SpecPush == InitPush /\ [][NextPush]_vars

\* the running frame holds what it held, and the value on top
PushedInt(v) ==
    /\ status = "running"
    /\ Len(frames) = last.depth
    /\ Top.operand_stack = Append(last.before.operand_stack, IntV(v))
    /\ Top.pc = last.before.pc + 1

\* C30: executing `bipush v` pushes Int(v) for every signed byte v, and
\* executing `sipush v` pushes Int(v), sign-extended, for every signed 16-bit
\* v; in both cases execution continues.
C30_PushConstants ==
    last.ins.op \in {"bipush", "sipush"} => PushedInt(last.ins.value)

\* the part that holds: bipush
BipushPushesInt ==
    last.ins.op = "bipush" => PushedInt(last.ins.value)

\* bipush -128 was executed over an earlier operand
BipushedMin ==
    /\ last.ins = Bipush(I8Min)
    /\ status = "running"
    /\ Top.operand_stack = <<IntV(I8Max), IntV(I8Min)>>

\* a sipush was fetched and stopped the program
SipushStopped ==
    /\ last.ins.op = "sipush"
    /\ status = "panic"

----------------------------------------------------------------------------
(* Truncation: code arrays cut short at every length *)

MaxTable == 2

\* n zero bytes
Zeros(n) == [i \in 1..n |-> 0]

\* a 32-bit operand holding a small value
Word(v) == <<0, 0, 0, v>>

\* the bytes of a tableswitch at address `at`: low 1, high `count`
TableswitchBytes(at, count) ==
    <<170>> \o Zeros(AlignTo(at + 1, 4) - (at + 1))
            \o Word(0) \o Word(1) \o Word(count) \o Zeros(4 * count)

\* the bytes of a lookupswitch at address `at` with npairs pairs
LookupswitchBytes(at, npairs) ==
    <<171>> \o Zeros(AlignTo(at + 1, 4) - (at + 1))
            \o Word(0) \o Word(npairs) \o Zeros(8 * npairs)

\* the encodings of one instruction placed at address `at`
Encodings(at) ==
    {<<0>>, <<16, 1>>, <<17, 0, 1>>, <<153, 0, 0>>}
    \cup {TableswitchBytes(at, c) : c \in 0..MaxTable}
    \cup {LookupswitchBytes(at, c) : c \in 0..MaxTable}

\* well-formed code arrays of one or two instructions
FullArrays ==
    UNION {{e1 \o e2 : e2 \in Encodings(Len(e1)) \cup {<<>>}} : e1 \in Encodings(0)}

\* every prefix of a well-formed code array
TruncatedArrays ==
    UNION {{[pad |-> 0, tail |-> SubSeq(full, 1, n)] : n \in 0..Len(full)} :
             full \in FullArrays}

InitTruncate ==
    /\ InitVm(0)
    /\ bytes \in TruncatedArrays
    /\ decoded = NotDecoded
    /\ ReaderIdle

NextTruncate == Decode

SpecTruncate == InitTruncate /\ [][NextTruncate]_vars

\* the length in bytes of the instruction at offset `at`, as the class-file
\* format gives it; 0 when the tail ends before the length is known
FormatLength(tail, at) ==
    CASE tail[at + 1] \in {0, 1, 3} -> 1
      [] tail[at + 1] = 16 -> 2
      [] tail[at + 1] \in {17, 153, 167, 198, 199} -> 3
      [] tail[at + 1] = 170 ->
            IF TableHeaderEnd(at) > Len(tail) THEN 0
            ELSE TableHeaderEnd(at) + 4 * TableCount(tail, at) - at
      [] tail[at + 1] = 171 ->
            IF LookupHeaderEnd(at) > Len(tail) THEN 0
            ELSE LookupHeaderEnd(at) + 8 * ReadI32Be(tail, LookupHeaderEnd(at) - 4) - at
      [] OTHER -> 1

\* the tail ends where an instruction ends
RECURSIVE EndsAtBoundary(_, _)
EndsAtBoundary(tail, at) ==
    IF at = Len(tail) THEN TRUE
    ELSE IF at > Len(tail) THEN FALSE
    ELSE IF FormatLength(tail, at) = 0 THEN FALSE
    ELSE EndsAtBoundary(tail, at + FormatLength(tail, at))

\* the tail ends inside the jump table of a switch whose header is complete
RECURSIVE EndsInTable(_, _)
EndsInTable(tail, at) ==
    IF at >= Len(tail) THEN FALSE
    ELSE IF FormatLength(tail, at) = 0 THEN FALSE
    ELSE IF at + FormatLength(tail, at) > Len(tail) THEN tail[at + 1] \in {170, 171}
    ELSE EndsInTable(tail, at + FormatLength(tail, at))

\* C31: decoding fails with an error whenever the code array ends before an
\* instruction is complete: inside the operand bytes of any opcode, or inside
\* the padding, header or jump table of a tableswitch/lookupswitch; a
\* truncated code array never decodes successfully.
C31_TruncatedCodeFails ==
    (decoded # NotDecoded /\ ~EndsAtBoundary(bytes.tail, 0)) =>
        decoded.res = "error"

\* the part that holds: a cut inside operand bytes, or inside the padding or
\* header of a switch, is an error
TruncatedOperandsFail ==
    (/\ decoded # NotDecoded
     /\ ~EndsAtBoundary(bytes.tail, 0)
     /\ ~EndsInTable(bytes.tail, 0)) => decoded.res = "error"

\* a tableswitch of two entries, cut after the first, decoded
TruncatedTableDecoded ==
    /\ bytes.tail = SubSeq(TableswitchBytes(0, 2), 1,
                           Len(TableswitchBytes(0, 2)) - 4)
    /\ decoded.res = "ok"
    /\ decoded.instructions = <<Simple("tableswitch")>>

\* `sipush` cut after its first operand byte failed to decode
TruncatedSipushFailed ==
    /\ bytes.tail = <<17, 0>>
    /\ decoded.res = "error"

----------------------------------------------------------------------------
(* Array stores of every store type *)

MaxCodeStore == 6
MaxStackStore == 4

InitStore == InitVm(MaxCodeStore) /\ UnitsIdle

NextStore ==
    \/ HostLoadClassFile({"Main"})
    \/ HostExecute
    \/ StackBelow(MaxStackStore) /\ ExecBipush({0, 1, 5})
    \/ StackBelow(MaxStackStore) /\ ExecDup
    \/ Len(heap) < MaxArrays /\ ExecNewarray({"Int"})
    \/ ExecArraystore({"Int", "Byte", "Reference"})
    \/ ExecPastEnd

SpecStore == InitStore /\ [][NextStore]_vars

\* the running frame is about to store a value at an index of an array
StoreIntoArray ==
    /\ status = "running"
    /\ frames # <<>>
    /\ last'.ins.op = "arraystore"
    /\ Len(Top.operand_stack) >= 3
    /\ Top.operand_stack[Len(Top.operand_stack) - 1].t = "Int"
    /\ Top.operand_stack[Len(Top.operand_stack) - 2].t = "Reference"
    /\ Top.operand_stack[Len(Top.operand_stack) - 2].r \in 1..Len(heap)
    /\ heap[Top.operand_stack[Len(Top.operand_stack) - 2].r].kind = "Array"

StoreTarget == Top.operand_stack[Len(Top.operand_stack) - 2].r
StoreIndex == Top.operand_stack[Len(Top.operand_stack) - 1].i
StoreValue == Top.operand_stack[Len(Top.operand_stack)]

\* C32: an arraystore whose store type does not match the target array's
\* element type fails with an error and leaves every element and the length
\* of the array unchanged; a matching store at index i changes only element i.
C32_StoreTypeChecked ==
    [][StoreIntoArray =>
          IF last'.ins.data_type # heap[StoreTarget].atype
          THEN /\ status' = "error"
               /\ heap' = heap
          ELSE /\ Len(heap') = Len(heap)
               /\ \A p \in 1..Len(heap) : p # StoreTarget => heap'[p] = heap[p]
               /\ heap'[StoreTarget].length = heap[StoreTarget].length
               /\ \A j \in 1..heap[StoreTarget].length :
                     j # StoreIndex + 1 =>
                        heap'[StoreTarget].data[j] = heap[StoreTarget].data[j]
               /\ status' = "running" =>
                     heap'[StoreTarget].data[StoreIndex + 1] = StoreValue.i]_vars

\* a byte store into an int array of five elements stopped with an error and
\* the array is as newarray made it
C32_Witness ==
    /\ last.ins = Arraystore("Byte")
    /\ last.res = "error"
    /\ status = "error"
    /\ Len(heap) = 1
    /\ heap[1].atype = "Int"
    /\ heap[1].length = 5
    /\ heap[1].data = <<0, 0, 0, 0, 0>>

----------------------------------------------------------------------------
(* Allocation: the object `new` makes *)

MaxCodeNew == 3
MaxObjectsNew == 2

InitNew == InitVm(MaxCodeNew) /\ UnitsIdle

NextNew ==
    \/ HostLoadClassFile({"Main"})
    \/ HostExecute
    \/ Len(heap) < MaxObjectsNew /\ ExecNew({5, 26, 28, 35})
    \/ ExecDup
    \/ ExecGetfield({8, 36, 37})
    \/ ExecPastEnd

SpecNew == InitNew /\ [][NextNew]_vars

\* the step just taken executed `new` of a class that has a class file
NewExecuted ==
    /\ last.ins.op = "new"
    /\ last.ins.index \in 1..Len(Pool(last.before))
    /\ Pool(last.before)[last.ins.index].tag = "Class"
    /\ Pool(last.before)[last.ins.index].name \in FileNames

NewClassName == Pool(last.before)[last.ins.index].name

\* the running frame holds one more operand, a reference to the newest
\* object, which is of class `name` and has every field at its default
FreshObject(name) ==
    /\ status = "running"
    /\ last.res = "next"
    /\ Top.operand_stack = Append(last.before.operand_stack, RefV(Len(heap)))
    /\ Len(heap) >= 1
    /\ \A i \in 1..Len(last.before.operand_stack) :
          last.before.operand_stack[i] # RefV(Len(heap))
    /\ heap[Len(heap)].kind = "Object"
    /\ classes[heap[Len(heap)].class].name = name
    /\ Len(heap[Len(heap)].data) = LayoutSize(name)
    /\ \A i \in 1..LayoutSize(name) :
          IsTypeDefault(heap[Len(heap)].data[i],
                        classes[heap[Len(heap)].class].fields[i].descriptor)

\* C33: immediately after `new` of a class every instance field of the new
\* object (own and inherited, of every field type) holds its type's default
\* value, and `new` pushes exactly one non-null reference distinct from every
\* reference returned by earlier allocations.
C33_NewDefaults ==
    NewExecuted => FreshObject(NewClassName)

\* the field types `new` can initialise
Initialisable == {"I", "Z", "[I"}

\* the part that holds: classes whose instance fields are all of type int,
\* boolean, object or array
NewDefaultsOfSupportedTypes ==
    (/\ NewExecuted
     /\ \A i \in 1..Len(InstanceFields(NewClassName)) :
           \/ InstanceFields(NewClassName)[i].descriptor \in Initialisable
           \/ FieldTypeOf(InstanceFields(NewClassName)[i].descriptor) = "Object")
        => FreshObject(NewClassName)

\* a second object, a T with its inherited and its own field, was allocated
SecondObjectFresh ==
    /\ NewExecuted
    /\ NewClassName = "T"
    /\ Len(heap) = 2
    /\ FreshObject("T")

\* `new Q`, a class with a long field, stopped the program
NewOfLongFieldStopped ==
    /\ NewExecuted
    /\ NewClassName = "Q"
    /\ status = "panic"


----------------------------------------------------------------------------
(* Rendering of objects: Main makes objects, writes fields and prints them *)

MaxCodeRender == 5
MaxStackRender == 3     \* operands the program has on its stack
MaxObjectsRender == 2   \* objects the program allocates

InitRender == InitVm(MaxCodeRender) /\ UnitsIdle

\* the program is type-correct: the operands of a putfield are an object of
\* the class of the field-ref and a value of the field's type
PutsInto(name, type) ==
    /\ frames # <<>>
    /\ Len(Top.operand_stack) >= 2
    /\ Last(Top.operand_stack).t = type
    /\ Last(Front(Top.operand_stack)).t = "Reference"
    /\ Last(Front(Top.operand_stack)).r \in 1..Len(heap)
    /\ heap[Last(Front(Top.operand_stack)).r].kind = "Object"
    /\ classes[heap[Last(Front(Top.operand_stack)).r].class].name = name

NextRender ==
    \/ HostLoadClassFile({"Main"})
    \/ HostExecute
    \/ Len(heap) < MaxObjectsRender /\ ExecNew({7, 28, 38})
    \/ StackBelow(MaxStackRender) /\ ExecDup
    \/ StackBelow(MaxStackRender) /\ ExecBipush({3})
    \/ StackBelow(MaxStackRender) /\ ExecAconstNull
    \/ PutsInto("H", "Int") /\ ExecPutfield({12})
    \/ PutsInto("N", "Reference") /\ ExecPutfield({39})
    \/ PutsInto("N", "Int") /\ ExecPutfield({40})
    \/ ExecInvoke({"Static"}, {16})
    \/ ExecPastEnd

SpecRender == InitRender /\ [][NextRender]_vars

\* the field at position k (from 0) of an object of a class: inherited fields
\* first, then the class's own in declaration order
RECURSIVE FieldAt(_, _)
FieldAt(name, k) ==
    IF k < LayoutSize(SuperName(name)) THEN FieldAt(SuperName(name), k)
    ELSE InstanceFields(name)[k - LayoutSize(SuperName(name)) + 1]

\* the value a field holds before anything was written to it
DefaultOf(descriptor) ==
    CASE FieldTypeOf(descriptor) = "Int" -> IntV(0)
      [] FieldTypeOf(descriptor) = "Boolean" -> BoolV(FALSE)
      [] OTHER -> RefV(0)

\* the current value of the field at position k of object o: what the last
\* putfield to that field wrote, or the default
CurrentValue(o, k) ==
    IF /\ o \in 1..Len(shadow.objects)
       /\ k + 1 \in 1..Len(shadow.objects[o])
       /\ shadow.objects[o][k + 1] # NoneV
    THEN shadow.objects[o][k + 1]
    ELSE DefaultOf(FieldAt(classes[heap[o].class].name, k).descriptor)

IsObject(v) ==
    /\ v.t = "Reference"
    /\ v.r \in 1..Len(heap)
    /\ heap[v.r].kind = "Object"

\* the value is an int, null, or an object whose fields hold such values, no
\* path through references being longer than depth
RECURSIVE RendersWithin(_, _)
RendersWithin(v, depth) ==
    CASE v.t = "Int" -> TRUE
      [] v.t = "Reference" ->
            IF v.r \notin 1..Len(heap) THEN TRUE
            ELSE /\ heap[v.r].kind = "Object"
                 /\ depth > 0
                 /\ \A k \in 0..(LayoutSize(classes[heap[v.r].class].name) - 1) :
                       RendersWithin(CurrentValue(v.r, k), depth - 1)
      [] OTHER -> FALSE

\* ClassName {fieldA: value, fieldB: value} over the fields in ordinal order,
\* each with its current value; null for the null reference
RECURSIVE ObjectRendering(_)
ObjectRendering(v) ==
    CASE v.t = "Int" -> Digits(v.i)
      [] v.t = "Reference" ->
            IF v.r \notin 1..Len(heap) THEN <<"n", "u", "l", "l">>
            ELSE Chars(classes[heap[v.r].class].name) \o <<" ", "{">>
                 \o Joined([j \in 1..LayoutSize(classes[heap[v.r].class].name) |->
                               Chars(FieldAt(classes[heap[v.r].class].name,
                                             j - 1).name)
                               \o <<":", " ">>
                               \o ObjectRendering(CurrentValue(v.r, j - 1))], 1)
                 \o <<"}">>

\* a print is about to render an object whose rendering is finite
ObjectPrinted ==
    /\ PrintExecuted
    /\ IsObject(Last(Top.operand_stack))
    /\ RendersWithin(Last(Top.operand_stack), MaxObjectsRender)

\* C34: rendering an object reference writes the class name followed by its
\* instance fields as name: value pairs in ordinal order (inherited first, then
\* own in declaration order), each value the field's current value; a null
\* reference, also as a field value, renders as null.
C34_ObjectRendering ==
    [][ObjectPrinted
          => /\ TookOneOperand
             /\ stdout' = stdout \o ObjectRendering(Last(Top.operand_stack))]_vars

\* some class on the super chain of the class declares a field again that a
\* class above it declares
RECURSIVE Redeclares(_)
Redeclares(name) ==
    /\ name # ""
    /\ \/ Redeclares(SuperName(name))
       \/ \E i \in 1..Len(InstanceFields(name)) :
             DeclaringClass(SuperName(name), InstanceFields(name)[i].name,
                            InstanceFields(name)[i].descriptor) # ""

\* the part of C34 that holds: objects of classes that declare no field again
ObjectRenderingWithoutRedeclaration ==
    [][(/\ ObjectPrinted
        /\ \A o \in 1..Len(heap) :
              heap[o].kind = "Object" => ~Redeclares(classes[heap[o].class].name))
          => /\ TookOneOperand
             /\ stdout' = stdout \o ObjectRendering(Last(Top.operand_stack))]_vars

\* an object was rendered with another object and a written int inside it
NestedObjectRendered ==
    /\ last.ins.op = "invoke"
    /\ last.res = "next"
    /\ stdout = <<"N", " ", "{", "next", ":", " ",
                  "N", " ", "{", "next", ":", " ", "n", "u", "l", "l", ",", " ",
                  "v", ":", " ", "0", "}", ",", " ", "v", ":", " ", "0", "}">>

\* an object was rendered after null was written to its reference field
NullFieldRendered ==
    /\ last.ins.op = "invoke"
    /\ last.res = "next"
    /\ shadow.objects # <<>>
    /\ shadow.objects[1][1] = RefV(0)
    /\ stdout = <<"N", " ", "{", "next", ":", " ", "n", "u", "l", "l", ",", " ",
                  "v", ":", " ", "0", "}">>

\* an object of the redeclaring class was rendered after its field z was
\* written: the written value stands under the name x
RedeclaredFieldRendered ==
    /\ last.ins.op = "invoke"
    /\ last.res = "next"
    /\ stdout = <<"H", " ", "{", "x", ":", " ", "0", ",", " ",
                  "x", ":", " ", "3", ",", " ", "z", ":", " ", "0", "}">>


----------------------------------------------------------------------------
(* The ordinal map and the field list of the linked classes *)

FieldKey(c, i) == <<classes[c].fields[i].name, classes[c].fields[i].descriptor>>

\* the ordinals of class c are the positions (from 0) of its fields
OrdinalsArePositions(c) ==
    /\ \A i \in 1..Len(classes[c].fields) :
          /\ FieldKey(c, i) \in DOMAIN classes[c].field_ordinals
          /\ classes[c].field_ordinals[FieldKey(c, i)] = i - 1
    /\ {classes[c].field_ordinals[k] : k \in DOMAIN classes[c].field_ordinals}
          = 0..(Len(classes[c].fields) - 1)
    /\ Cardinality(DOMAIN classes[c].field_ordinals) = Len(classes[c].fields)

\* C35: in every linked class the ordinal map and the instance-field list
\* agree: the ordinal of each instance field is its index in the list, and the
\* ordinals are exactly 0..len-1 without duplicates, also when a subclass
\* declares a field with the name and descriptor of an inherited one.
C35_OrdinalsMatchFields ==
    \A c \in 1..Len(classes) : OrdinalsArePositions(c)

\* the part of C35 that holds: classes on whose super chain no field is
\* declared again
OrdinalsMatchFieldsWithoutRedeclaration ==
    \A c \in 1..Len(classes) :
        ~Redeclares(classes[c].name) => OrdinalsArePositions(c)

\* a subclass with an inherited and an own field is linked
SubclassLinked ==
    \E c \in 1..Len(classes) :
        /\ classes[c].name = "S"
        /\ classes[c].field_ordinals[<<"x", "I">>] = 0
        /\ classes[c].field_ordinals[<<"y", "I">>] = 1

\* the redeclaring subclass is linked: three fields, two ordinals, both 1
RedeclaringClassLinked ==
    \E c \in 1..Len(classes) :
        /\ classes[c].name = "H"
        /\ Len(classes[c].fields) = 3
        /\ classes[c].field_ordinals[<<"x", "I">>] = 1
        /\ classes[c].field_ordinals[<<"z", "I">>] = 1
        /\ Cardinality(DOMAIN classes[c].field_ordinals) = 2


----------------------------------------------------------------------------
(* The running class of a frame: Main calls methods of other classes *)

MaxCodeRunning == 3
MaxStackRunning == 2    \* operands a frame has on its stack

InitRunning == InitVm(MaxCodeRunning) /\ UnitsIdle

NextRunning ==
    \/ HostLoadClassFile({"Main"})
    \/ HostExecute
    \/ StackBelow(MaxStackRunning) /\ ExecBipush({1, 2})
    \/ StackBelow(MaxStackRunning) /\ ExecNew({5, 6})
    \/ StackBelow(MaxStackRunning) /\ ExecGetstatic({2, 4})
    \/ ExecAdd
    \/ ExecPutstatic({2})
    \/ ExecInvoke({"Static"}, {15, 17})
    \/ ExecInvoke({"Virtual"}, {13})
    \/ ExecInvoke({"Special"}, {34})
    \/ ExecReturn({"Int", "Void"})
    \/ ExecPastEnd

SpecRunning == InitRunning /\ [][NextRunning]_vars

\* the frame runs with the class that declares its method
RunsWithDeclaringClass(f) == classes[f.class].name = f.mclass

\* C36: every constant-pool index used while a method body executes is
\* resolved against the constant pool of the class that declares the method,
\* for every invoke kind: a static method of class B invoked from class A runs
\* with B, not A, as its running class.
C36_RunningClassIsDeclaringClass ==
    \A i \in 1..Len(frames) : RunsWithDeclaringClass(frames[i])

\* the part of C36 that holds: the frames of instance methods, entered by
\* invokespecial or invokevirtual
InstanceMethodsRunWithDeclaringClass ==
    \A i \in 1..Len(frames) :
        "STATIC" \notin MethodOf(frames[i]).access_flags
            => RunsWithDeclaringClass(frames[i])

\* a method of A, entered by invokespecial or invokevirtual from Main, runs
\* with A as its running class
InstanceMethodRunning ==
    /\ Len(frames) = 2
    /\ Top.mclass = "A"
    /\ classes[Top.class].name = "A"
    /\ last.ins.op = "invoke"

\* Counter.inc ran with Main as its running class: its getstatic and
\* putstatic of index 2 went to Main.m, and Counter.n is as it was
StaticCalleeWroteCallerField ==
    /\ Len(frames) = 1
    /\ last.ins.op = "return"
    /\ last.before.mclass = "Counter"
    /\ \E c, d \in 1..Len(classes) :
          /\ classes[c].name = "Main"
          /\ classes[c].static_fields[<<"m", "I">>] = IntV(1)
          /\ classes[d].name = "Counter"
          /\ classes[d].static_fields[<<"n", "I">>] = IntV(0)


----------------------------------------------------------------------------
(* Repeated runs: what one instruction can do from one state *)

MaxCodeRepeat == 4
MaxStackRepeat == 2     \* operands the program has on its stack
MaxObjectsRepeat == 1   \* objects the program allocates

InitRepeat == InitVm(MaxCodeRepeat) /\ UnitsIdle

NextRepeat ==
    \/ HostLoadClassFile({"Main"})
    \/ HostExecute
    \/ StackBelow(MaxStackRepeat) /\ ExecAconstNull
    \/ StackBelow(MaxStackRepeat) /\ ExecBipush({2})
    \/ StackBelow(MaxStackRepeat) /\ ExecDup
    \/ Len(heap) < MaxObjectsRepeat /\ ExecNew({5})
    \/ ExecGetfield({8})
    \/ ExecPutfield({8})
    \/ ExecInvoke({"Static"}, {16, 41})
    \/ ExecPastEnd

SpecRepeat == InitRepeat /\ [][NextRepeat]_vars

\* what a run shows of the result of a step: the outcome and the bytes written
Shown(r) == <<r.res, r.stdout>>

\* the results the build can produce for an instruction in the current state
Outcomes(ins) ==
    CASE status # "running" \/ frames = <<>> -> {}
      [] ins.op = "getfield" -> {StepGetfield(ins, ub) : ub \in UBOutcomes}
      [] ins.op = "putfield" -> {StepPutfield(ins, ub) : ub \in UBOutcomes}
      [] ins.op = "invoke" -> {StepInvoke(ins)}
      [] ins.op = "new" -> {StepNew(ins)}
      [] OTHER -> {}

FieldOfNoObject ==
    /\ last'.ins.op \in {"getfield", "putfield"}
    /\ ~IsObject(RefV(Receiver(Top, last'.ins)))

\* the part of C37 that holds: every instruction but a field access through
\* a reference that is no object has one result
DeterministicOnObjects ==
    [][~FieldOfNoObject
          => \A r1, r2 \in Outcomes(last'.ins) :
                /\ Shown(r1) = Shown(r2)
                /\ r1 = r2]_vars

\* the clock was read and its value printed
ClockPrinted ==
    /\ last.ins.op = "invoke"
    /\ last.res = "next"
    /\ Len(prog) >= 2
    /\ prog[Len(prog) - 1] = Invoke("Static", 41)
    /\ stdout = Digits(SystemTimeMillis)

\* a field written through an object was read back and printed
FieldPrinted ==
    /\ last.ins.op = "invoke"
    /\ last.res = "next"
    /\ Len(prog) >= 2
    /\ prog[Len(prog) - 1] = Getfield(8)
    /\ heap # <<>>
    /\ stdout = Digits(0)

\* one program, two ends: aconst_null; getfield stopped the run ...
NullReadStopped ==
    /\ prog = <<Simple("aconst_null"), Getfield(8)>>
    /\ status = "abort"

\* ... and aconst_null; getfield went on with a value that was printed
NullReadPrinted ==
    /\ prog = <<Simple("aconst_null"), Getfield(8), Invoke("Static", 16)>>
    /\ last.res = "next"
    /\ stdout = Digits(0)


----------------------------------------------------------------------------
(* The two maps of the decoder: address_map and index_map *)

\* the byte address of the instruction the decoder emitted j-th for the tail
AddressOf(b, j) == b.pad + StartsOf(b)[j]

\* the byte address (in the tail) starts no instruction
NotAStart(b, address) ==
    \A j \in 1..Len(StartsOf(b)) : AddressOf(b, j) # address

\* index_map sends the start of every emitted instruction to its index,
\* address_map is strictly increasing, and distinct starts have distinct
\* indices
MapsInverseOnStarts ==
    decoded.res = "ok" =>
        /\ Len(StartsOf(bytes)) = Len(decoded.instructions)
        /\ \A j \in 1..Len(StartsOf(bytes)) :
              IndexMap(bytes.pad, StartsOf(bytes), AddressOf(bytes, j))
                 = IndexOf(decoded, j)
        /\ \A j, k \in 1..Len(StartsOf(bytes)) :
              /\ j < k => AddressOf(bytes, j) < AddressOf(bytes, k)
              /\ j # k =>
                    IndexMap(bytes.pad, StartsOf(bytes), AddressOf(bytes, j))
                       # IndexMap(bytes.pad, StartsOf(bytes), AddressOf(bytes, k))

\* index_map sends no other byte address to the index of an instruction
OnlyStartsMapped ==
    decoded.res = "ok" =>
        \A address \in bytes.pad..(BytesLen(bytes) - 1) :
            NotAStart(bytes, address)
                => IndexMap(bytes.pad, StartsOf(bytes), address)
                      \notin 0..(InstructionsLen(decoded) - 1)

\* C38: the decoder's two maps are mutually inverse on instruction starts:
\* index_of(address_of(k)) = k for every emitted instruction k, address_of is
\* strictly increasing, distinct starts never share an index, and a byte
\* address that starts no instruction is mapped to the index of none.
C38_MapsMutuallyInverse == MapsInverseOnStarts /\ OnlyStartsMapped

\* a code array with an operand byte was decoded: its second instruction
\* starts after the operand of the first
OperandByteSkipped ==
    /\ decoded.res = "ok"
    /\ Len(StartsOf(bytes)) >= 2
    /\ StartsOf(bytes)[2] > StartsOf(bytes)[1] + 1

\* the address of an operand byte is mapped to index 0, the index of the
\* first instruction
OperandByteMappedToFirst ==
    /\ decoded.res = "ok"
    /\ \E address \in bytes.pad..(BytesLen(bytes) - 1) :
          /\ NotAStart(bytes, address)
          /\ IndexMap(bytes.pad, StartsOf(bytes), address) = 0

====
